---- MODULE Spec2Model ----
(***************************************************************************)
(* Model of bsb2usfm.py: the row-to-tree conversion engine (Processor),    *)
(* the style table (Style, AcrosticStyle, ptypes) and the main loop.       *)
(*                                                                         *)
(* Text is a sequence of tokens.  A token is a string: a word, a single    *)
(* space " ", a punctuation mark, or one whole pseudo-tag such as          *)
(* "<p class=|reg|>" or "</span>".  The regular expressions of the source  *)
(* are modelled by what they match on such token sequences.                *)
(* Python None for a text or a tail is the empty sequence (the source      *)
(* only ever reads them through "x or ''" and truthiness tests).           *)
(* A node reference is an index into the node arena; None is 0.            *)
(***************************************************************************)
EXTENDS Integers, Sequences, FiniteSets, TLC

\* Number of input rows read by the main loop (header and comment rows included).
MaxRows == 4

None == 0

------------------------------------------------------------------------------
(* Text helpers: str.rstrip / lstrip / strip, debracket, and the body-cell tests *)

White == {" ", "\n"}

RECURSIVE rstrip(_)
rstrip(t) == IF t # <<>> /\ t[Len(t)] \in White THEN rstrip(SubSeq(t, 1, Len(t) - 1)) ELSE t

RECURSIVE lstrip(_)
lstrip(t) == IF t # <<>> /\ t[1] \in White THEN lstrip(Tail(t)) ELSE t

strip(t) == lstrip(rstrip(t))

Brackets == {"[", "]", "{", "}"}

IsNotBracket(x) == x \notin Brackets

debracket(s) == SelectSeq(s, IsNotBracket)

DigitToks == {"1", "2", "12", ","}

\* regex.match(r"^[\d,]+$", t)
IsDigitsOnly(t) == t # <<>> /\ \A i \in 1..Len(t) : t[i] \in DigitToks

\* t.strip() in ('-', '. . .', 'vvv')
Placeholders == {<<"-">>, <<".", " ", ".", " ", ".">>, <<"vvv">>}

\* First index i >= from with t[i] in S, or 0
IndexFrom(t, S, from) ==
    LET hits == {i \in from..Len(t) : t[i] \in S}
    IN IF hits = {} THEN 0 ELSE CHOOSE i \in hits : \A j \in hits : i <= j

------------------------------------------------------------------------------
(* Pseudo-tags.  One token per tag; the class is read back from the token. *)

ClassNames == {"acrostic", "cross", "fnv", "hdg", "ihdg", "indent1", "indent1stline",
               "indent1stlinered", "indent2", "indentred1", "indentred2", "inscrip",
               "list1", "list1stline", "list2", "pshdg", "red", "reftext", "reg",
               "selah", "subhdg", "suphdg", "tab1", "tab1stline", "tab1stlinered"}

\* a class that is not a key of ptypes
UnknownClasses == {"nosuch"}

AllClasses == ClassNames \cup UnknownClasses

PTag(c) == "<p class=|" \o c \o "|>"
SpanTag(c) == "<span class=|" \o c \o "|>"
DivTag(c) == "<div class=|" \o c \o "|>"

PTags == {PTag(c) : c \in AllClasses}
SpanTags == {SpanTag(c) : c \in AllClasses}
DivTags == {DivTag(c) : c \in AllClasses}

\* text that starts with "<p " (resp. "<span ", "<div ") but does not match the tag pattern
BadPTags == {"<p >"}
BadSpanTags == {"<span >"}
BadDivTags == {"<div >"}

\* tokens that begin with "<p", "<span" or "<div": the lookahead (?=$|<(?:p|span|div))
OpenLike == PTags \cup SpanTags \cup DivTags \cup BadPTags \cup BadSpanTags \cup BadDivTags

ClassOf(tok) == CHOOSE c \in AllClasses : tok \in {PTag(c), SpanTag(c), DivTag(c)}

------------------------------------------------------------------------------
(* Style classifier: category_types / categories and Grammar.marker_categories *)

marker_categories(s) ==
    CASE s \in {"wj"} -> "char"
      [] s \in {"fr", "ft", "fq", "fqa", "fv"} -> "footnotechar"
      [] s \in {"h", "toc1", "toc2", "toc3"} -> "header"
      [] s \in {"li1", "li2"} -> "list"
      [] s \in {"qa"} -> "otherpara"
      [] s \in {"s1", "s2", "ms", "mr", "r"} -> "sectionpara"
      [] s \in {"mt1", "mt2"} -> "title"
      [] s \in {"p", "q1", "q2", "qr", "pc", "pmo", "b"} -> "versepara"
      [] OTHER -> ""

categories(cat) ==
    CASE cat \in {"char", "footnotechar", "crossreferencechar", "listchar", "introchar"} -> "char"
      [] cat \in {"header", "introduction", "list", "otherpara", "sectionpara", "title", "versepara"} -> "para"
      [] OTHER -> "none"

KindOf(s) == categories(marker_categories(s))

\* ptypes: kind "style" is Style(styles, after), "acrostic" is AcrosticStyle, "str" is
\* the bare string of the reftext entry, "missing" is ptypes.get(...) = None
StyleEntry(styles, after) == [kind |-> "style", styles |-> styles, after |-> after]

ptypes(c) ==
    CASE c = "acrostic" -> [kind |-> "acrostic", styles |-> <<"qa", "qa">>, after |-> ""]
      [] c = "cross" -> StyleEntry(<<"r">>, "")
      [] c = "fnv" -> StyleEntry(<<"fv">>, "")
      [] c = "hdg" -> StyleEntry(<<"s1">>, "")
      [] c = "ihdg" -> StyleEntry(<<"s2">>, "")
      [] c = "indent1" -> StyleEntry(<<"q1">>, "")
      [] c = "indent1stline" -> StyleEntry(<<"b", "q1">>, "")
      [] c = "indent1stlinered" -> StyleEntry(<<"q1", "wj">>, "")
      [] c = "indent2" -> StyleEntry(<<"q2">>, "")
      [] c = "indentred1" -> StyleEntry(<<"q1", "wj">>, "")
      [] c = "indentred2" -> StyleEntry(<<"q2", "wj">>, "")
      [] c = "inscrip" -> StyleEntry(<<"pc">>, "")
      [] c = "list1" -> StyleEntry(<<"li1">>, "")
      [] c = "list1stline" -> StyleEntry(<<"b", "li1">>, "")
      [] c = "list2" -> StyleEntry(<<"li2">>, "")
      [] c = "pshdg" -> StyleEntry(<<"mr">>, "")
      [] c = "red" -> StyleEntry(<<"wj">>, "")
      [] c = "reftext" -> [kind |-> "str", styles |-> <<"v">>, after |-> ""]
      [] c = "reg" -> StyleEntry(<<"p">>, "")
      [] c = "selah" -> StyleEntry(<<"qr">>, "")
      [] c = "subhdg" -> StyleEntry(<<"s2">>, "")
      [] c = "suphdg" -> StyleEntry(<<"ms">>, "")
      [] c = "tab1" -> StyleEntry(<<"b">>, "pmo")
      [] c = "tab1stline" -> StyleEntry(<<"pmo">>, "")
      [] c = "tab1stlinered" -> StyleEntry(<<"pmo", "wj">>, "")
      [] OTHER -> [kind |-> "missing", styles |-> <<>>, after |-> ""]

------------------------------------------------------------------------------
(* The document tree: an arena of nodes (usfmtc.xmlutils.ParentElement) *)

Node(tag, style, attr, parent) ==
    [tag |-> tag, style |-> style, attr |-> attr, text |-> <<>>, tail |-> <<>>,
     parent |-> parent, kids |-> <<>>]

\* parent.makeelement(tag, attrs) followed by parent.append(node); the new node is Len(result)
AppendNode(nodes, parent, tag, style, attr) ==
    Append([nodes EXCEPT ![parent].kids = Append(@, Len(nodes) + 1)],
           Node(tag, style, attr, parent))

\* while parent.parent is not None: parent = parent.parent
RECURSIVE RootOf(_, _)
RootOf(nodes, n) == IF nodes[n].parent = None THEN n ELSE RootOf(nodes, nodes[n].parent)

LastKid(nodes, n) == nodes[n].kids[Len(nodes[n].kids)]

EndsInWhite(t) == t # <<>> /\ t[Len(t)] \in White

RECURSIVE ensurespace(_, _)
ensurespace(nodes, n) ==
    IF nodes[n].kids = <<>>
    THEN IF nodes[n].text # <<>> /\ ~EndsInWhite(nodes[n].text)
         THEN [nodes EXCEPT ![n].text = Append(@, " ")]
         ELSE nodes
    ELSE IF nodes[LastKid(nodes, n)].tail # <<>> /\ ~EndsInWhite(nodes[LastKid(nodes, n)].tail)
         THEN [nodes EXCEPT ![LastKid(nodes, n)].tail = Append(@, " ")]
         ELSE ensurespace(nodes, LastKid(nodes, n))

------------------------------------------------------------------------------
(* Style.addto and AcrosticStyle.addto.  A call returns [nodes, res, exc]:  *)
(* the tree, the returned node (None when nothing was created) and whether  *)
(* the call raised (attribute access on None).                              *)

NoRef == [book |-> "", chapter |-> 0, verse |-> 0]

NumStr(n) == CASE n = 0 -> "0" [] n = 1 -> "1" [] n = 2 -> "2" [] n = 3 -> "3"
               [] n = 4 -> "4" [] n = 5 -> "5" [] n = 12 -> "12" [] OTHER -> "n"

\* one pass of the loop without the test that drops "b" under a section heading
StyleStep_keepb(L, s) ==
    LET t == KindOf(s) IN
    IF L.exc THEN L
    ELSE IF t = "none" THEN L
    ELSE IF L.parent = None THEN [L EXCEPT !.exc = TRUE]
    ELSE
      LET p1 == IF t = "para" \/ L.ispar THEN RootOf(L.nodes, L.parent) ELSE L.parent
          mkpar == L.ispar /\ t # "para"
          n1 == IF mkpar THEN AppendNode(L.nodes, p1, "para", "p", "") ELSE L.nodes
          p2 == IF mkpar THEN Len(n1) ELSE p1
          mkverse == L.verse # NoRef /\ t # "para"
          n2 == IF mkverse THEN AppendNode(n1, p2, "verse", "v", NumStr(L.verse.verse)) ELSE n1
          n3 == IF t # "para" THEN ensurespace(n2, p2) ELSE n2
          n4 == AppendNode(n3, p2, t, s, "")
      IN [nodes |-> n4, parent |-> Len(n4), ispar |-> FALSE,
          verse |-> IF mkverse THEN NoRef ELSE L.verse, res |-> Len(n4), exc |-> FALSE]

\* one pass of "for s in self.styles"; L = [nodes, parent, ispar, verse, res, exc]
StyleStep(L, s) ==
    LET t == KindOf(s) IN
    IF L.exc THEN L
    ELSE IF s = "b" /\ L.parent # None
            /\ marker_categories(L.nodes[L.parent].style) = "sectionpara" THEN L
    ELSE IF t = "none" THEN L
    ELSE IF L.parent = None THEN [L EXCEPT !.exc = TRUE]
    ELSE
      LET p1 == IF t = "para" \/ L.ispar THEN RootOf(L.nodes, L.parent) ELSE L.parent
          mkpar == L.ispar /\ t # "para"
          n1 == IF mkpar THEN AppendNode(L.nodes, p1, "para", "p", "") ELSE L.nodes
          p2 == IF mkpar THEN Len(n1) ELSE p1
          mkverse == L.verse # NoRef /\ t # "para"
          n2 == IF mkverse THEN AppendNode(n1, p2, "verse", "v", NumStr(L.verse.verse)) ELSE n1
          n3 == IF t # "para" THEN ensurespace(n2, p2) ELSE n2
          n4 == AppendNode(n3, p2, t, s, "")
      IN [nodes |-> n4, parent |-> Len(n4), ispar |-> FALSE,
          verse |-> IF mkverse THEN NoRef ELSE L.verse, res |-> Len(n4), exc |-> FALSE]

RECURSIVE StyleLoop(_, _, _)
StyleLoop(L, styles, i) ==
    IF i > Len(styles) THEN L ELSE StyleLoop(StyleStep(L, styles[i]), styles, i + 1)

\* what follows the loop: res.text = text, then the "after" style; L is the loop's
\* outcome and nodes the tree the call started from
StyleAfter(L, nodes, c, text, hasText) ==
    LET n1 == IF L.res # None /\ hasText THEN [L.nodes EXCEPT ![L.res].text = text] ELSE L.nodes
        doafter == c.after # "" /\ KindOf(c.after) # "none"
    IN IF L.exc THEN [nodes |-> nodes, res |-> None, exc |-> TRUE]
       ELSE IF doafter /\ L.parent = None THEN [nodes |-> nodes, res |-> None, exc |-> TRUE]
       ELSE [nodes |-> IF doafter THEN AppendNode(n1, L.parent, KindOf(c.after), c.after, "")
                       ELSE n1,
             res |-> L.res, exc |-> FALSE]

\* Style.addto(parent, text, ispar, verse); hasText is "text is not None"
Style_addto(nodes, c, parent, text, hasText, ispar, verse) ==
    StyleAfter(StyleLoop([nodes |-> nodes, parent |-> parent, ispar |-> ispar,
                          verse |-> verse, res |-> None, exc |-> FALSE], c.styles, 1),
               nodes, c, text, hasText)

\* index of the first "<br>" followed by a space: regex.match(r"(.*?)<br> (.*)", text)
BrSplit(text) ==
    LET hits == {i \in 1..(Len(text) - 1) : text[i] = "<br>" /\ text[i + 1] = " "}
    IN IF hits = {} THEN 0 ELSE CHOOSE i \in hits : \A j \in hits : i <= j

Acrostic_addto(nodes, c, parent, text, hasText, ispar, verse) ==
    LET k == BrSplit(text) IN
    IF ~hasText \/ k = 0 THEN [nodes |-> nodes, res |-> None, exc |-> FALSE]
    ELSE IF parent = None THEN [nodes |-> nodes, res |-> None, exc |-> TRUE]
    ELSE
      LET root == RootOf(nodes, parent)
          n1 == AppendNode(nodes, root, "para", c.styles[1], "")
          n2 == [n1 EXCEPT ![Len(n1)].text = SubSeq(text, 1, k - 1)]
          n3 == AppendNode(n2, root, "para", c.styles[2], "")
          n4 == [n3 EXCEPT ![Len(n3)].text = SubSeq(text, k + 2, Len(text))]
      IN [nodes |-> n4, res |-> Len(n4), exc |-> FALSE]

\* c.addto(...) for an entry c of ptypes: the reftext entry is a str and has no addto
addto(nodes, c, parent, text, hasText, ispar, verse) ==
    CASE c.kind = "style" -> Style_addto(nodes, c, parent, text, hasText, ispar, verse)
      [] c.kind = "acrostic" -> Acrostic_addto(nodes, c, parent, text, hasText, ispar, verse)
      [] OTHER -> [nodes |-> nodes, res |-> None, exc |-> TRUE]

------------------------------------------------------------------------------
(* Reference model: bookmap, the VerseId pattern of processline, canonref *)

NumToks == {"1", "2", "3", "12"}
OneDigit == {"1", "2", "3"}

\* int(m.group(k))
NumVal(tok) == CASE tok = "1" -> 1 [] tok = "2" -> 2 [] tok = "3" -> 3 [] tok = "12" -> 12 [] OTHER -> 0

RECURSIVE Join(_)
Join(t) == IF t = <<>> THEN "" ELSE t[1] \o Join(Tail(t))

\* booknames[i] -> allbooks[i], for the names the inputs use; "" is "not a key"
bookmap(name) ==
    CASE name = "Genesis" -> "GEN"
      [] name = "Exodus" -> "EXO"
      [] name = "1 Samuel" -> "1SA"
      [] name = "John" -> "JHN"
      [] name = "Song of Solomon" -> "SNG"
      [] OTHER -> ""

NumsAt(t, k) == k >= 1 /\ k + 2 <= Len(t) /\ t[k] \in NumToks /\ t[k + 1] = ":" /\ t[k + 2] \in NumToks

\* first index >= k that holds no white space (Len(t) + 1 when there is none)
SkipWhite(t, k) ==
    LET rest == {i \in k..Len(t) : t[i] \notin White}
    IN IF rest = {} THEN Len(t) + 1 ELSE CHOOSE i \in rest : \A j \in rest : i <= j

\* regex.match(r"(\d?\s*\D+)\s*(\d+):(\d+)", VerseId): [ok, name, chapter, verse]
MatchVerseId(t) ==
    LET from == IF t # <<>> /\ t[1] \in OneDigit THEN 2 ELSE 1
        k == IndexFrom(t, NumToks, from)
    IN IF k > from /\ NumsAt(t, k)
       THEN [ok |-> TRUE, name |-> Join(strip(SubSeq(t, 1, k - 1))),
             chapter |-> NumVal(t[k]), verse |-> NumVal(t[k + 2])]
       ELSE [ok |-> FALSE, name |-> "", chapter |-> 0, verse |-> 0]

\* the ASCII hyphen and the en-dash U+2013 (written "u2013": the module is ASCII)
Dashes == {"-", "u2013"}

RefStr(r) == r.book \o " " \o NumStr(r.chapter) \o ":" \o NumStr(r.verse)

\* the ends j of a book name that starts at i: t[i..j] then white space then c:v
NameEnds(t, i) ==
    LET i2 == IF t[i] \in OneDigit THEN SkipWhite(t, i + 1) ELSE i
        plain == {j \in i..Len(t) : (\A x \in i..j : t[x] \notin White)
                                     /\ NumsAt(t, SkipWhite(t, j + 1))}
        numbered == {j \in i2..Len(t) : (\A x \in i2..j : t[x] \notin White)
                                     /\ NumsAt(t, SkipWhite(t, j + 1))}
    IN IF t[i] \in OneDigit /\ numbered # {} THEN numbered ELSE plain

\* canonref(s): [ok, str (str() of the Ref or RefRange), book, start, end]; the
\* match is t[start..end]
\* the match whose book name is t[i..j] and whose chapter number is t[k]
RefMatch(t, i, j, k) ==
    LET first == [book |-> bookmap(Join(strip(SubSeq(t, i, j)))),
                  chapter |-> NumVal(t[k]), verse |-> NumVal(t[k + 2])]
        ranged == k + 4 <= Len(t) /\ t[k + 3] \in Dashes /\ t[k + 4] \in NumToks
        cross == ranged /\ k + 6 <= Len(t) /\ t[k + 5] = ":" /\ t[k + 6] \in NumToks
    IN [ok |-> TRUE,
        str |-> IF cross THEN RefStr(first) \o "-" \o t[k + 4] \o ":" \o t[k + 6]
                ELSE IF ranged THEN RefStr(first) \o "-" \o t[k + 4]
                ELSE RefStr(first),
        book |-> first.book,
        first |-> first,
        last |-> IF cross THEN [first EXCEPT !.chapter = NumVal(t[k + 4]),
                                             !.verse = NumVal(t[k + 6])]
                 ELSE IF ranged THEN [first EXCEPT !.verse = NumVal(t[k + 4])]
                 ELSE first,
        start |-> i,
        end |-> IF cross THEN k + 6 ELSE IF ranged THEN k + 4 ELSE k + 2]

\* the match that starts at i: the name is greedy (\D+), so it ends at the last end
RefFrom(t, i, ends) ==
    RefMatch(t, i, CHOOSE x \in ends : \A y \in ends : y <= x,
             SkipWhite(t, (CHOOSE x \in ends : \A y \in ends : y <= x) + 1))

\* the starts of a match, the leftmost one is the match of regex.match
RefStarts(t) == {i \in 1..Len(t) : t[i] \notin White /\ NameEnds(t, i) # {}}

FirstOf(starts, t) == RefFrom(t, CHOOSE x \in starts : \A y \in starts : x <= y,
                              NameEnds(t, CHOOSE x \in starts : \A y \in starts : x <= y))

\* return (None, 0, 0)
NoMatch == [ok |-> FALSE, str |-> "", book |-> "", first |-> NoRef, last |-> NoRef,
            start |-> 0, end |-> 0]

canonref(t) == IF RefStarts(t) = {} THEN NoMatch ELSE FirstOf(RefStarts(t), t)

------------------------------------------------------------------------------
(* Processor.  Its fields travel in a record S:                             *)
(*   nodes, book       self.doc (book = "" while self.doc is None)          *)
(*   currnode, cref, fncount, pendinglstrip, skipping, verse_pending        *)
(*   files             the books saved so far by writedoc, in order         *)
(*   fnkeys            the keys looked up in self.fnqs so far, in order,    *)
(*                     each with the reference it was built from            *)
(*   docs              opened: the book of every document made by makebook, *)
(*                     flushed: the book and the number of nodes of every   *)
(*                     document handed to writedoc, both in order           *)
(*   exc               an exception was raised: the run is aborted          *)
(* Every operation is the identity once exc is set.                         *)

VARIABLES nodes, book, currnode, cref, fncount, pendinglstrip, skipping, verse_pending,
          files, fnkeys, docs, books, fnqs, pc, nread, row, refsSeen, booksSeen, refin,
          refres,
          fntab, fnpos, replay, web

vars == <<nodes, book, currnode, cref, fncount, pendinglstrip, skipping, verse_pending,
          files, fnkeys, docs, books, fnqs, pc, nread, row, refsSeen, booksSeen, refin,
          refres,
          fntab, fnpos, replay, web>>

Raise(S) == [S EXCEPT !.exc = TRUE]

NoDocs == [opened |-> <<>>, flushed |-> <<>>]

\* writedoc is entered with the open document: the flush, whether or not the
\* allowlist lets the file be saved
Flush(S) == [S EXCEPT !.docs.flushed = Append(@, [book |-> S.book, size |-> Len(S.nodes)])]

\* writedoc without the allowlist test
writedoc_nofilter(S) ==
    IF S.exc THEN S
    ELSE IF S.book = "" THEN Raise(S)
    ELSE [Flush(S) EXCEPT !.files = Append(@, S.book)]

writedoc(S) ==
    IF S.exc THEN S
    ELSE IF S.book = "" THEN Raise(S)
    ELSE IF books.given /\ S.book \notin books.codes THEN Flush(S)
    ELSE [Flush(S) EXCEPT !.files = Append(@, S.book)]

\* booknames[allbooks.index(bk)]
BookName(bk) == CASE bk = "GEN" -> "Genesis" [] bk = "EXO" -> "Exodus"
                  [] bk = "1SA" -> "1 Samuel" [] bk = "JHN" -> "John"
                  [] bk = "SNG" -> "Song of Solomon" [] OTHER -> bk

\* title1, title2 = books[0].rsplit(' ', 1) when the long name holds a space
\* booktitles gives the two titles of SNG
Title1(bk) == IF bk = "1SA" THEN "1"
              ELSE IF bk = "SNG" THEN "The Song of Solomon, or" ELSE BookName(bk)
Title2(bk) == IF bk = "1SA" THEN "Samuel"
              ELSE IF bk = "SNG" THEN "Song of Songs" ELSE BookName(bk)

TitlePara(style, text, kids) ==
    [tag |-> "para", style |-> style, attr |-> "", text |-> <<text>>, tail |-> <<>>,
     parent |-> 1, kids |-> kids]

\* the tree of the template: usx > book, h, toc1, toc2, toc3, mt2, mt1
Template(bk) ==
    << [tag |-> "usx", style |-> "", attr |-> "3.1", text |-> <<>>, tail |-> <<>>,
        parent |-> None, kids |-> <<2, 3, 4, 5, 6, 7, 8>>],
       [tag |-> "book", style |-> "id", attr |-> bk, text |-> <<"Autogenerated BSB by bsb2usfm">>,
        tail |-> <<>>, parent |-> 1, kids |-> <<>>],
       TitlePara("h", BookName(bk), <<>>),
       TitlePara("toc1", BookName(bk), <<>>),
       TitlePara("toc2", BookName(bk), <<>>),
       TitlePara("toc3", bk, <<>>),
       TitlePara("mt2", Title1(bk), <<>>),
       TitlePara("mt1", Title2(bk), <<>>) >>

makebook(S, bk) ==
    IF S.exc THEN S
    ELSE [S EXCEPT !.nodes = Template(bk), !.book = bk, !.currnode = Len(Template(bk)),
                   !.docs.opened = Append(@, bk)]

\* appenddoc putting the node under the cursor instead of the parent it is given
appenddoc_cursor(S, parent, tag, style, number) ==
    IF S.exc THEN S
    ELSE LET n1 == AppendNode(S.nodes, S.currnode, tag, style, number)
         IN [S EXCEPT !.nodes = n1, !.currnode = Len(n1)]

appenddoc(S, parent, tag, style, number) ==
    IF S.exc THEN S
    ELSE LET n1 == AppendNode(S.nodes, parent, tag, style, number)
         IN [S EXCEPT !.nodes = n1, !.currnode = Len(n1)]

appendverse(S) ==
    [S EXCEPT !.nodes = AppendNode(S.nodes, S.currnode, "verse", "v", NumStr(S.cref.verse)),
              !.verse_pending = FALSE]

appendtext(S, txt, isverse, dostrip) ==
    IF S.exc \/ S.currnode = None THEN S
    ELSE
      LET t1 == IF dostrip THEN rstrip(txt) ELSE txt
          doverse == isverse /\ S.verse_pending
          S1 == IF doverse THEN appendverse(S) ELSE S
          t2 == IF doverse THEN lstrip(t1) ELSE t1
          cur == S1.currnode
      IN IF S1.nodes[cur].kids # <<>>
         THEN [S1 EXCEPT !.nodes[LastKid(S1.nodes, cur)].tail = @ \o t2]
         ELSE [S1 EXCEPT !.nodes[cur].text = @ \o t2]

CloseToks == {"</span>", "</div>"}

\* the cursor left where it is
GoUp_stay(S) ==
    IF S.exc THEN S
    ELSE IF S.currnode = None THEN Raise(S)
    ELSE S

\* self.currnode = self.currnode.parent
GoUp(S) ==
    IF S.exc THEN S
    ELSE IF S.currnode = None THEN Raise(S)
    ELSE [S EXCEPT !.currnode = S.nodes[S.currnode].parent]

RECURSIVE addend(_, _)
addend(S, txt) ==
    LET k == IndexFrom(txt, CloseToks, 1) IN
    IF S.exc THEN S
    ELSE IF k = 0 THEN appendtext(S, txt, TRUE, TRUE)
    ELSE addend(GoUp(appendtext(S, SubSeq(txt, 1, k - 1), TRUE, TRUE)),
                SubSeq(txt, k + 1, Len(txt)))

\* self.currnode = c.addto(self.currnode, ...), the call raising when it raises
SetCursor(S, r) ==
    IF r.exc THEN Raise(S) ELSE [S EXCEPT !.nodes = r.nodes, !.currnode = r.res]

\* txt = txt[m.end():]
JunkRest(txt) == SubSeq(txt, IndexFrom(txt, PTags, 1) + 1, Len(txt))

RECURSIVE appendjunkytext(_, _)
appendjunkytext(S, txt) ==
    LET k == IndexFrom(txt, PTags, 1) IN
    IF S.exc THEN S
    ELSE IF k = 0 THEN (IF txt # <<>> THEN appendtext(S, txt, TRUE, TRUE) ELSE S)
    ELSE
      LET S1 == appendtext(S, SubSeq(txt, 1, k - 1), TRUE, TRUE)
          c == ptypes(ClassOf(txt[k]))
          S2 == IF c.kind = "missing" THEN S1
                ELSE SetCursor(S1, addto(S1.nodes, c, S1.currnode, <<>>, FALSE, FALSE, NoRef))
      IN appendjunkytext(S2, JunkRest(txt))

------------------------------------------------------------------------------
(* Processor.addheading: the markup scanner *)

\* the inner text of a tag at txt[1] that runs to the first token of `stops` (or to
\* the end): [inner, rest]; `eat` says whether the stop token is part of the match
TagSpan(txt, stops, eat) ==
    LET j == IndexFrom(txt, stops, 2) IN
    IF j = 0 THEN [inner |-> SubSeq(txt, 2, Len(txt)), rest |-> <<>>]
    ELSE [inner |-> SubSeq(txt, 2, j - 1),
          rest |-> SubSeq(txt, IF eat THEN j + 1 ELSE j, Len(txt))]

\* index of the "</a>" that closes the first "<a ...>" of t, 0 when there is none
LinkOpen(t) == IndexFrom(t, {"<a>"}, 1)
LinkClose(t) == IF LinkOpen(t) = 0 THEN 0 ELSE IndexFrom(t, {"</a>"}, LinkOpen(t) + 1)

\* the loop over bits[1:] of regex.split(r"<a.*?>(.*?)</a>", ...): t is the text after
\* the previous link, whose ref element is `last`
\* str(r) of the reference of a link, "" when canonref found none
RefAttr(r) == IF r.ok THEN r.str ELSE ""

\* self.currnode.makeelement('ref', {'loc': ...}) with its text; the new node is
\* Len(ns) + 1
AppendRef(ns, cur, inner) ==
    [AppendNode(ns, cur, "ref", "", RefAttr(canonref(inner))) EXCEPT ![Len(ns) + 1].text = inner]

RECURSIVE SpanLinks(_, _, _, _)
SpanLinks(ns, cur, last, t) ==
    IF LinkClose(t) = 0 THEN [ns EXCEPT ![last].tail = t]
    ELSE SpanLinks(AppendRef([ns EXCEPT ![last].tail = SubSeq(t, 1, LinkOpen(t) - 1)], cur,
                             SubSeq(t, LinkOpen(t) + 1, LinkClose(t) - 1)),
                   cur, Len(ns) + 1, SubSeq(t, LinkClose(t) + 1, Len(t)))

\* for i, b in enumerate(bits): the first bit is the text of the new node
SpanBits(ns, cur, t) ==
    IF LinkClose(t) = 0 THEN [ns EXCEPT ![cur].text = t]
    ELSE SpanLinks(AppendRef([ns EXCEPT ![cur].text = SubSeq(t, 1, LinkOpen(t) - 1)], cur,
                             SubSeq(t, LinkOpen(t) + 1, LinkClose(t) - 1)),
                   cur, Len(ns) + 1, SubSeq(t, LinkClose(t) + 1, Len(t)))

\* the test after the insert of a "<p " tag leaving the pending flag as it is
CharClearsVerse_keep(S, isversetext) ==
    IF S.exc \/ ~isversetext THEN S
    ELSE IF S.currnode = None THEN Raise(S)
    ELSE S

\* if isversetext and self.currnode.tag == "char": self.verse_pending = False
CharClearsVerse(S, isversetext) ==
    IF S.exc \/ ~isversetext THEN S
    ELSE IF S.currnode = None THEN Raise(S)
    ELSE IF S.nodes[S.currnode].tag = "char" THEN [S EXCEPT !.verse_pending = FALSE]
    ELSE S

\* the "<p " branch going on after a class that is not in ptypes
HeadingP_goon(S, txt, isversetext) ==
    LET m == TagSpan(txt, OpenLike, FALSE)
        c == ptypes(ClassOf(txt[1]))
    IN IF txt[1] \notin PTags THEN [S |-> S, rest |-> txt, stop |-> TRUE]
       ELSE IF c.kind = "missing" THEN [S |-> S, rest |-> m.rest, stop |-> FALSE]
       ELSE [S |-> CharClearsVerse(
                     SetCursor(S, addto(S.nodes, c, S.currnode, strip(m.inner), TRUE, TRUE,
                                        IF S.verse_pending /\ isversetext THEN S.cref
                                        ELSE NoRef)),
                     isversetext),
             rest |-> m.rest, stop |-> FALSE]

\* the "<p " branch; returns [S, rest, stop]
HeadingP(S, txt, isversetext) ==
    LET m == TagSpan(txt, OpenLike, FALSE)
        c == ptypes(ClassOf(txt[1]))
    IN IF txt[1] \notin PTags \/ c.kind = "missing" THEN [S |-> S, rest |-> txt, stop |-> TRUE]
       ELSE [S |-> CharClearsVerse(
                     SetCursor(S, addto(S.nodes, c, S.currnode, strip(m.inner), TRUE, TRUE,
                                        IF S.verse_pending /\ isversetext THEN S.cref
                                        ELSE NoRef)),
                     isversetext),
             rest |-> m.rest, stop |-> FALSE]

\* the "<span " branch
\* the text and the links of a span go into the new current node
SpanText(S, inner) ==
    IF S.exc THEN S
    ELSE IF S.currnode = None THEN Raise(S)
    ELSE [S EXCEPT !.nodes = SpanBits(S.nodes, S.currnode, inner)]

HeadingSpan(S, txt) ==
    LET m == TagSpan(txt, {"</span>"}, TRUE)
        c == ptypes(ClassOf(txt[1]))
    IN IF txt[1] \notin SpanTags \/ c.kind = "missing" THEN [S |-> S, rest |-> txt, stop |-> TRUE]
       ELSE [S |-> SpanText(SetCursor(S, addto(S.nodes, c, S.currnode, <<>>, FALSE, FALSE,
                                               NoRef)),
                            m.inner),
             rest |-> m.rest, stop |-> FALSE]

\* the "<div " branch
HeadingDiv(S, txt) ==
    LET m == TagSpan(txt, {"</div>"}, TRUE)
        c == ptypes(ClassOf(txt[1]))
    IN IF txt[1] \notin DivTags \/ c.kind = "missing" THEN [S |-> S, rest |-> txt, stop |-> TRUE]
       ELSE [S |-> SetCursor(S, addto(S.nodes, c, S.currnode, m.inner, TRUE, FALSE, NoRef)),
             rest |-> m.rest, stop |-> FALSE]

\* one pass of the loop: the branch the head of txt selects, or the break
HeadingStep(S, txt, isversetext) ==
    IF txt[1] \in PTags \cup BadPTags THEN HeadingP(S, txt, isversetext)
    ELSE IF txt[1] \in SpanTags \cup BadSpanTags THEN HeadingSpan(S, txt)
    ELSE IF txt[1] \in DivTags \cup BadDivTags THEN HeadingDiv(S, txt)
    ELSE [S |-> S, rest |-> txt, stop |-> TRUE]

\* while len(txt): ...
RECURSIVE HeadingLoop(_, _, _)
RECURSIVE HeadingNext(_, _, _)
HeadingNext(step, S, isversetext) ==
    IF step.stop THEN S ELSE HeadingLoop(step.S, step.rest, isversetext)

HeadingLoop(S, txt, isversetext) ==
    IF S.exc \/ txt = <<>> THEN S
    ELSE HeadingNext(HeadingStep(S, txt, isversetext), S, isversetext)

\* self.pendinglstrip = False, the last statement of addheading
ClearLstrip(S) == IF S.exc THEN S ELSE [S EXCEPT !.pendinglstrip = FALSE]

addheading(S, txt, isversetext) ==
    IF S.exc \/ S.currnode = None THEN S
    ELSE ClearLstrip(HeadingLoop(S, strip(IF txt # <<>> /\ txt[1] = "<br />" THEN Tail(txt)
                                          ELSE txt),
                                 isversetext))

------------------------------------------------------------------------------
(* Processor.addnote: the footnote composer *)

\* str(self.cref) + ("" if self.fncount == 0 else f"[{self.fncount}]")
FnKeyOf(str, count) == str \o (IF count = 0 THEN "" ELSE "[" \o NumStr(count) \o "]")

FnKey(ref, count) == FnKeyOf(RefStr(ref), count)

\* self.fnqs.get(key, [])
FnStyles(key) == IF key \in DOMAIN fnqs THEN fnqs[key] ELSE <<>>

FnvTag == SpanTag("fnv")

FnvOpen(b) == IndexFrom(b, {FnvTag}, 1)
FnvClose(b) == IF FnvOpen(b) = 0 THEN 0 ELSE IndexFrom(b, {"</span>"}, FnvOpen(b) + 1)

\* the text left with the verse number tag replaced by a token that is no tag
FnvRest_same(b) == [b EXCEPT ![FnvOpen(b)] = "?"]

\* b = b[m.end():]
FnvRest(b) == SubSeq(b, FnvClose(b) + 1, Len(b))

\* while (m := regex.search(r"<span class=\|fnv\|>(.*?)</span>", b)) is not None
RECURSIVE FnvLoop(_, _, _, _, _)
FnvLoop(ns, currf, vnode, b, count) ==
    IF FnvClose(b) = 0
    THEN IF count > 0 THEN [ns EXCEPT ![vnode].tail = b] ELSE ns
    ELSE
      LET n1 == IF count = 0 THEN [ns EXCEPT ![currf].text = SubSeq(b, 1, FnvOpen(b) - 1)]
                ELSE [ns EXCEPT ![vnode].tail = SubSeq(b, 1, FnvOpen(b) - 1)]
          n2 == AppendNode(n1, currf, "char", "fv", "")
          n3 == [n2 EXCEPT ![Len(n2)].text = SubSeq(b, FnvOpen(b) + 1, FnvClose(b) - 1)]
      IN FnvLoop(n3, currf, Len(n3), FnvRest(b), count + 1)

\* one non-empty bit b with index i; N = [nodes, fnode, currf, qcount, fqs, exc]
\* the text of bit b goes into the new char node currf (the last node of ns); r is
\* canonref(b) and prevf the char node before
NoteText(ns, prevf, currf, b, r) ==
    IF ~r.ok
    THEN IF FnvClose(b) # 0 THEN FnvLoop(ns, currf, currf, b, 0)
         ELSE IF b[1] = " "
         THEN [ns EXCEPT ![prevf].text = @ \o <<" ">>, ![currf].text = Tail(b)]
         ELSE [ns EXCEPT ![currf].text = b]
    ELSE [AppendNode([ns EXCEPT ![currf].text = SubSeq(b, 1, r.start - 1)],
                     currf, "ref", "", r.str)
             EXCEPT ![Len(ns) + 1].text = SubSeq(b, r.start, r.end),
                    ![Len(ns) + 1].tail = SubSeq(b, r.end + 1, Len(b))]

NoteBit(N, b, i) ==
    LET style == IF i % 2 = 0 THEN "ft"
                 ELSE IF N.qcount < Len(N.fqs) THEN N.fqs[N.qcount + 1] ELSE "fqa"
    IN IF N.exc \/ b = <<>> THEN N
       ELSE IF N.currf = None THEN [N EXCEPT !.exc = TRUE]
       ELSE [N EXCEPT !.nodes = NoteText(AppendNode(N.nodes, N.fnode, "char", style, ""),
                                         N.currf, Len(N.nodes) + 1, b, canonref(b)),
                      !.currf = Len(N.nodes) + 1, !.qcount = N.qcount + 1]

Italics == {"<i>", "</i>"}

\* for i, b in enumerate(regex.split(r"</?i>", txt))
RECURSIVE NoteBits(_, _, _)
NoteBits(N, txt, i) ==
    LET k == IndexFrom(txt, Italics, 1) IN
    IF k = 0 THEN NoteBit(N, txt, i)
    ELSE NoteBits(NoteBit(N, SubSeq(txt, 1, k - 1), i), SubSeq(txt, k + 1, Len(txt)), i + 1)

\* the note node f with its fr char "c:v " when there is a current reference
NoteHead(S) ==
    IF S.cref = NoRef THEN AppendNode(S.nodes, S.currnode, "note", "f", "+")
    ELSE [AppendNode(AppendNode(S.nodes, S.currnode, "note", "f", "+"),
                     Len(S.nodes) + 1, "char", "fr", "")
             EXCEPT ![Len(S.nodes) + 2].text =
                        <<NumStr(S.cref.chapter), ":", NumStr(S.cref.verse), " ">>]

\* the bits N put in the tree and the counter left as it was
NoteDone_nocount(S, N) ==
    IF N.exc THEN Raise(S)
    ELSE [S EXCEPT !.nodes = N.nodes,
                   !.fnkeys = IF DOMAIN fnqs # {}
                              THEN Append(@, [ref |-> S.cref, key |-> FnKey(S.cref, S.fncount)])
                              ELSE @]

\* self.fncount += 1 once the bits N are in the tree; the key was looked up when
\* there is a style table
NoteDone(S, N) ==
    IF N.exc THEN Raise(S)
    ELSE [S EXCEPT !.nodes = N.nodes, !.fncount = S.fncount + 1,
                   !.fnkeys = IF DOMAIN fnqs # {}
                              THEN Append(@, [ref |-> S.cref, key |-> FnKey(S.cref, S.fncount)])
                              ELSE @]

addnote(S, txt) ==
    IF S.exc THEN S
    ELSE IF S.currnode = None THEN Raise(S)
    ELSE NoteDone(S, NoteBits([nodes |-> NoteHead(S), fnode |-> Len(S.nodes) + 1,
                               currf |-> IF S.cref # NoRef THEN Len(S.nodes) + 2 ELSE None,
                               qcount |-> 0,
                               fqs |-> IF DOMAIN fnqs # {}
                                       THEN FnStyles(FnKey(S.cref, S.fncount)) ELSE <<>>,
                               exc |-> FALSE], txt, 0))

------------------------------------------------------------------------------
(* Processor.processline: the row state machine *)

\* the reference part of processline (lines 360-383)
RowRef(S, r) ==
    LET m == MatchVerseId(r.VerseId)
        bk == bookmap(m.name)
        newref == [book |-> bk, chapter |-> m.chapter, verse |-> m.verse]
        newbook == S.book = "" \/ bk # S.book
        S1 == IF newbook /\ S.book # "" THEN writedoc(S) ELSE S
        S2 == IF newbook
              THEN [makebook(S1, bk) EXCEPT !.skipping = books.given /\ bk \notin books.codes]
              ELSE S1
        lastref == IF newbook THEN [book |-> bk, chapter |-> 0, verse |-> 0] ELSE S.cref
        S3 == IF lastref = NoRef \/ newref.chapter # lastref.chapter
              THEN appenddoc(S2, RootOf(S2.nodes, 1), "chapter", "c", NumStr(newref.chapter))
              ELSE S2
    IN IF S.exc \/ r.VerseId = <<>> \/ ~m.ok THEN S
       ELSE IF bk = "" THEN Raise(S)
       ELSE IF S3.exc THEN S3
       ELSE [S3 EXCEPT !.cref = newref, !.fncount = 0, !.verse_pending = TRUE]

\* if row[17]: ...
RowBegQ(S, r) ==
    IF S.exc \/ r.begQ = <<>> THEN S
    ELSE LET S1 == IF r.begQ[1] # SpanTag("reftext")
                   THEN appendtext(S, <<" ">> \o debracket(r.begQ), TRUE, TRUE) ELSE S
         IN IF S1.exc THEN S1 ELSE [S1 EXCEPT !.pendinglstrip = TRUE]

\* if f[' BSB version ']: ...
RowBody(S, r) ==
    LET t0 == debracket(r.body)
        t == IF IsDigitsOnly(t0) THEN <<" ">> \o t0 \o <<" ">> ELSE t0
    IN IF S.exc \/ r.body = <<>> THEN S
       ELSE IF IndexFrom(t, PTags, 1) # 0 THEN appendjunkytext(S, t)
       ELSE IF strip(t) \in Placeholders THEN S
       ELSE IF S.pendinglstrip
            THEN appendtext([S EXCEPT !.pendinglstrip = FALSE], lstrip(t), TRUE, TRUE)
       ELSE appendtext(S, t, TRUE, TRUE)

\* if f['Hdg']: / if f['Crossref']: / if f['Par']: self.addheading(...)
HeadingCell(S, cell, isversetext) ==
    IF cell # <<>> THEN addheading(S, cell, isversetext) ELSE S

\* if f['pnc']: / if row[20]: / if f['End text']: self.addend(...)
EndCell(S, cell, txt) == IF cell # <<>> THEN addend(S, txt) ELSE S

\* if f['footnotes']: self.addnote(...)
NoteCell(S, cell) == IF cell # <<>> THEN addnote(S, cell) ELSE S

\* the cells after the reference with the footnote composed before the trailing
\* punctuation and the closing quote
RowCells_noteFirst(S, r) ==
    EndCell(
      EndCell(
        EndCell(
          NoteCell(
            RowBody(
              RowBegQ(
                HeadingCell(
                  HeadingCell(
                    HeadingCell(S, r.Hdg, FALSE),
                    r.Crossref, FALSE),
                  r.Par, TRUE),
                r),
              r),
            r.footnotes),
          r.pnc, r.pnc),
        r.endQ, debracket(r.endQ)),
      r.EndText, r.EndText)

\* the cells after the reference, in the order the code reads them
RowCells(S, r) ==
    EndCell(
      NoteCell(
        EndCell(
          EndCell(
            RowBody(
              RowBegQ(
                HeadingCell(
                  HeadingCell(
                    HeadingCell(S, r.Hdg, FALSE),
                    r.Crossref, FALSE),
                  r.Par, TRUE),
                r),
              r),
            r.pnc, r.pnc),
          r.endQ, debracket(r.endQ)),
        r.footnotes),
      r.EndText, r.EndText)

\* processline without the test of the skip flag
RowGate_open(S, r) == IF S.exc THEN S ELSE RowCells(S, r)

\* if self.skipping: return
RowGate(S, r) == IF S.exc \/ S.skipping THEN S ELSE RowCells(S, r)

processline(S, r) == RowGate(RowRef(S, r), r)

------------------------------------------------------------------------------
(* Input rows.  A row holds the cells processline reads: VerseId, Hdg,      *)
(* Crossref, Par, row[17] (begQ), ' BSB version ' (body), pnc, row[20]      *)
(* (endQ), footnotes and 'End text'.                                        *)

Row(v, h, x, p, bq, b, pn, eq, fn, et) ==
    [VerseId |-> v, Hdg |-> h, Crossref |-> x, Par |-> p, begQ |-> bq, body |-> b,
     pnc |-> pn, endQ |-> eq, footnotes |-> fn, EndText |-> et]

E == <<>>

EmptyRow == Row(E, E, E, E, E, E, E, E, E, E)

G11 == <<"Genesis", " ", "1", ":", "1">>
G12 == <<"Genesis", " ", "1", ":", "2">>
G21 == <<"Genesis", " ", "2", ":", "1">>
E11 == <<"Exodus", " ", "1", ":", "1">>
BadRef == <<"Genesis", " ", "one">>
UnknownBook == <<"Enoch", " ", "1", ":", "1">>

\* " In the beginning " and shorter body cells, padded with spaces as in the tables
BodyIn == <<" ", "In", " ", "the", " ", "beginning", " ">>
BodyNow == <<" ", "Now", " ">>
BodyGod == <<" ", "God", " ">>
BodyRed == <<" ", "said,", " ", SpanTag("red"), "Let", " ", "be", "</span>", " ", "and", " ">>
BodyJunk == <<" ", "Now", " ", PTag("indent1"), "God", " ">>
BodyBracket == <<" ", "[", "the", "]", " ">>

NoteYom == <<"Hebrew", " ", "<i>", "yom", "</i>", " ", "day">>
NoteRef == <<"See", " ", "John", " ", "1", ":", "3", "u2013", "12", ";", " ", "or", " ",
             "<i>", FnvTag, "2", "</span>", " ", "light", "</i>">>

HdgCreation == <<PTag("hdg"), "The", " ", "Creation", "</p>">>
CrossJohn == <<"<br />", SpanTag("cross"), "(", "<a>", "John", " ", "1", ":", "1", "</a>", ";", " ",
               "<a>", "Hebrews", "</a>", ")", "</span>">>

DemoRow1 == Row(G11, HdgCreation, CrossJohn, <<PTag("reg")>>, E, BodyIn, E, E, E, E)
BodyOnly11 == Row(G11, E, E, E, E, BodyIn, E, E, E, E)
BodyOnly12 == Row(G12, E, E, E, E, BodyNow, E, E, E, E)
RedBody12 == Row(G12, E, E, E, E, BodyRed, E, E, E, E)
Noted11 == Row(G11, E, E, <<PTag("reg")>>, E, BodyGod, E, E, NoteYom, E)
Noted12 == Row(G12, E, E, E, E, BodyGod, E, E, NoteRef, E)
WordRow == Row(E, E, E, E, E, BodyGod, E, E, E, E)
NotedWord == Row(E, E, E, E, E, BodyNow, <<",">>, E, NoteYom, E)
ParText11 == Row(G11, E, E, <<PTag("indent1"), "Selah">>, E, BodyIn, E, E, E, E)
ParSpan12 == Row(G12, E, E, <<SpanTag("red"), "Selah">>, E, BodyNow, E, E, E, E)
ParTab12 == Row(G12, E, E, <<PTag("tab1")>>, E, BodyNow, E, E, E, E)
Placeholder12 == Row(G12, E, E, E, E, <<" ", "-", " ">>, E, E, E, E)
RedPar21 == Row(G21, <<PTag("suphdg"), "Eden">>, E, <<PTag("indentred1")>>, E, BodyGod, E, E, E,
                <<"</span>">>)
FirstLine21 == Row(G21, <<PTag("hdg"), "Eden">>, E, <<PTag("indent1stline")>>, E, BodyNow, E, E, E, E)
Quoted == Row(E, E, E, E, <<"{", "'">>, BodyGod, <<".">>, <<"'", "]">>, E, E)
Exodus11 == Row(E11, E, E, <<PTag("reg")>>, E, BodyNow, E, E, NoteYom, E)
BadRefRow == Row(BadRef, E, E, E, E, BodyGod, E, E, E, E)
UnknownBookRow == Row(UnknownBook, E, E, E, E, BodyGod, E, E, E, E)
JunkRow == Row(E, E, E, E, E, BodyJunk, E, E, E, E)
DigitsRow == Row(E, E, E, E, E, <<"12">>, E, E, E, E)
BracketRow == Row(E, E, E, E, E, BodyBracket, E, E, E, E)
AcrosticRow == Row(E, <<PTag("acrostic"), "ALEPH", "<br>", " ", "Blessed">>, E, E, E, BodyGod, E, E, E, E)
CloserRow == Row(E, E, E, E, E, E, <<",", "</span>">>, E, E, E)
ClosersRow == Row(E, E, E, E, E, BodyGod, E, E, E, <<"</div>", "</span>", "</span>">>)
MissingRow == Row(E, <<PTag("hdg"), "Eden", PTag("nosuch"), "Eden", PTag("hdg"), "Eden">>, E, E, E,
                 BodyGod, E, E, E, E)
BadTagRow == Row(E, <<"<p >", "Eden">>, <<"Eden">>, E, E, E, E, E, E, E)
RefTextRow == Row(G12, E, E, E, <<SpanTag("reftext"), "1">>, BodyGod, E, E, E, E)
DivRow == Row(E, <<DivTag("subhdg"), "Eden", "</div>", SpanTag("red"), "Eden">>, E, E, E, E, E, E, E, E)
HdgTabRow == Row(G21, <<PTag("hdg"), "Eden">>, E, <<PTag("tab1")>>, E, BodyNow, E, E, E, E)
AcrosticPlainRow == Row(E, <<PTag("acrostic"), "ALEPH">>, E, E, E, BodyGod, E, E, E, E)
\* a heading and a body with no paragraph tag, as the Matthew 1:1 row of the demo table
HdgBodyRow == Row(G21, HdgCreation, E, E, E, BodyNow, E, E, E, E)
\* a first-line paragraph tag with no heading before it
FirstLine12 == Row(G12, E, E, <<PTag("indent1stline")>>, E, BodyNow, E, E, E, E)
\* a body that starts with a paragraph tag of a character style
JunkRedRow == Row(G12, E, E, E, E, <<PTag("red"), "God", " ">>, E, E, E, E)
\* a leading quote before a body with a paragraph tag, and before a placeholder body
\* followed by trailing punctuation
QuotedJunkRow == Row(E, E, E, E, <<"'">>, BodyJunk, E, E, E, E)
QuotedEndRow == Row(E, E, E, E, <<"'">>, <<" ", "-", " ">>, <<",">>, E, E, E)
\* trailing punctuation with two close tags and text around them
TwoClosersRow == Row(E, E, E, E, E, E, <<",", "</span>", ";", "</span>", "Selah">>, E, E, E)
\* a row with all nine cells
FullRow == Row(G12, <<PTag("hdg"), "Eden">>, CrossJohn, <<PTag("reg")>>, <<"'">>, BodyGod, <<",">>,
               <<"'">>, NoteYom, <<" ", "Selah">>)

Rows == {EmptyRow, DemoRow1, BodyOnly11, BodyOnly12, RedBody12, Noted11, Noted12, WordRow,
         NotedWord, ParText11, ParSpan12, ParTab12, Placeholder12, RedPar21, FirstLine21,
         Quoted, Exodus11, BadRefRow, UnknownBookRow, JunkRow, DigitsRow, BracketRow,
         AcrosticRow, CloserRow, ClosersRow, MissingRow, BadTagRow, RefTextRow, DivRow,
         HdgTabRow, AcrosticPlainRow, HdgBodyRow, FirstLine12, JunkRedRow,
         QuotedJunkRow, QuotedEndRow, TwoClosersRow, FullRow}

------------------------------------------------------------------------------
(* Configuration: the -b allowlist and the footnote style table of -f *)

NoBooks == [given |-> FALSE, codes |-> {}]
OnlyGen == [given |-> TRUE, codes |-> {"GEN"}]

\* fnqs is a dict; the empty dict stands for None (main passes None for an empty table)
NoFnqs == <<>>
DemoFnqs == [k \in {"GEN 1:1", "GEN 1:1[1]", "GEN 1:2", "EXO 1:1"} |->
               CASE k = "GEN 1:1" -> <<"fqa", "fq">>
                 [] k = "GEN 1:1[1]" -> <<"fq">>
                 [] k = "GEN 1:2" -> <<"ft", "fq", "fqa">>
                 [] OTHER -> <<"fqa">>]

Configs == {<<NoBooks, NoFnqs>>, <<NoBooks, DemoFnqs>>, <<OnlyGen, DemoFnqs>>}

------------------------------------------------------------------------------
(* The main loop (lines 443-456) *)

\* the text handed to canonref when the Reference Model is run on its own, as a
\* description [pre, name, c, v, form, dash, c2, w]: the text is pre, the book name,
\* a space, "c:v" and then, by form,
\*   "plain"    nothing            "verse"    dash w
\*   "chapter"  dash c2:w          "colon"    :c2:w
\* and with form "none" it is pre, the book name and " one" (no chapter:verse)
NoText == [pre |-> <<>>, name |-> "", c |-> 0, v |-> 0, form |-> "none", dash |-> "-",
           c2 |-> 0, w |-> 0]

\* the rows of a run that is made twice: tape is the table, pass the number of the run,
\* step the number of steps of this run so far (rows read and the final writedoc)
\* and log the Processor after every step of the first run
NoReplay == [tape |-> <<>>, pass |-> 0, step |-> 0, log |-> <<>>]

\* the web service before any request (the fields are described with its steps)
NoSweep == [op |-> "", aged |-> {}, sized |-> {}, failed |-> FALSE]

NoWeb == [free |-> FALSE, clock |-> 0, disk |-> {}, dirs |-> {}, reqs |-> <<>>, waits |-> {},
          downloads |-> <<>>, last |-> NoSweep]

State == [nodes |-> nodes, book |-> book, currnode |-> currnode, cref |-> cref,
          fncount |-> fncount, pendinglstrip |-> pendinglstrip, skipping |-> skipping,
          verse_pending |-> verse_pending, files |-> files, fnkeys |-> fnkeys,
          docs |-> docs, exc |-> FALSE]

\* Processor.__init__ and the state of the loop before the first row
Init ==
    /\ nodes = <<>> /\ book = "" /\ currnode = None /\ cref = NoRef
    /\ fncount = 0 /\ pendinglstrip = FALSE /\ skipping = FALSE /\ verse_pending = FALSE
    /\ files = <<>> /\ fnkeys = <<>> /\ docs = NoDocs
    /\ \E c \in Configs : books = c[1] /\ fnqs = c[2]
    /\ pc = "header" /\ nread = 0 /\ row = EmptyRow
    /\ refsSeen = {} /\ booksSeen = {}
    /\ refin = NoText /\ refres = NoMatch
    /\ fntab = <<>> /\ fnpos = 0 /\ replay = NoReplay /\ web = NoWeb

Store(S, next) ==
    /\ nodes' = S.nodes /\ book' = S.book /\ currnode' = S.currnode /\ cref' = S.cref
    /\ fncount' = S.fncount /\ pendinglstrip' = S.pendinglstrip /\ skipping' = S.skipping
    /\ verse_pending' = S.verse_pending /\ files' = S.files /\ fnkeys' = S.fnkeys
    /\ docs' = S.docs
    /\ pc' = IF S.exc THEN "aborted" ELSE next

\* a first row that starts with "//": hdr stays None
ReadComment ==
    /\ pc = "header" /\ nread < MaxRows
    /\ nread' = nread + 1
    /\ UNCHANGED <<nodes, book, currnode, cref, fncount, pendinglstrip, skipping, verse_pending,
                   files, fnkeys, docs, books, fnqs, pc, row, refsSeen, booksSeen, refin, refres, fntab, fnpos, replay, web>>

\* the header row: job.addheadline(r)
ReadHeader ==
    /\ pc = "header" /\ nread < MaxRows
    /\ nread' = nread + 1 /\ pc' = "rows"
    /\ UNCHANGED <<nodes, book, currnode, cref, fncount, pendinglstrip, skipping, verse_pending,
                   files, fnkeys, docs, books, fnqs, row, refsSeen, booksSeen, refin, refres, fntab, fnpos, replay, web>>

\* the reference a row's VerseId cell parses to, NoRef when it does not
ParsedRef(r) ==
    LET m == MatchVerseId(r.VerseId)
    IN IF r.VerseId # <<>> /\ m.ok /\ bookmap(m.name) # ""
       THEN [book |-> bookmap(m.name), chapter |-> m.chapter, verse |-> m.verse]
       ELSE NoRef

\* job.processline(r)
ProcessRow ==
    /\ pc = "rows" /\ nread < MaxRows
    /\ \E r \in Rows :
         /\ row' = r
         /\ Store(processline(State, r), "rows")
         /\ booksSeen' = IF ParsedRef(r) # NoRef THEN booksSeen \cup {ParsedRef(r).book}
                         ELSE booksSeen
         /\ refsSeen' = IF ParsedRef(r) = NoRef THEN refsSeen
                        ELSE IF ParsedRef(r).book # book THEN {ParsedRef(r)}
                        ELSE refsSeen \cup {ParsedRef(r)}
    /\ nread' = nread + 1
    /\ UNCHANGED <<books, fnqs, refin, refres, fntab, fnpos, replay, web>>

\* the end of the input: job.writedoc()
EndOfInput ==
    /\ pc \in {"header", "rows"}
    /\ Store(writedoc(State), "done")
    /\ UNCHANGED <<books, fnqs, nread, row, refsSeen, booksSeen, refin, refres, fntab, fnpos, replay, web>>

Next == ReadComment \/ ReadHeader \/ ProcessRow \/ EndOfInput

Spec == Init /\ [][Next]_vars

\* the run goes on: the loop over the rows reads the next row or leaves at the end of
\* the input
SpecLive == Init /\ [][Next]_vars /\ WF_vars(Next)

------------------------------------------------------------------------------
(* The Reference Model on its own: canonref applied to one text *)

\* names of booknames (one plain, one numbered, one of several words), a name that
\* is not in the list and a name of the list in another letter case
ListedNames == {"Genesis", "John", "1 Samuel", "Song of Solomon"}
UnlistedNames == {"Enoch", "genesis"}

NameToks(name) ==
    CASE name = "1 Samuel" -> <<"1", " ", "Samuel">>
      [] name = "Song of Solomon" -> <<"Song", " ", "of", " ", "Solomon">>
      [] OTHER -> <<name>>

RefForms == {"plain", "verse", "chapter", "colon", "none"}

RefInputs ==
    [pre : {<<>>, <<"See", " ">>}, name : ListedNames \cup UnlistedNames, c : {1, 2},
     v : {1, 3}, form : RefForms, dash : Dashes, c2 : {2, 3}, w : {2, 12}]

RefText(x) ==
    x.pre \o NameToks(x.name) \o
    CASE x.form = "none" -> <<" ", "one">>
      [] x.form = "plain" -> <<" ", NumStr(x.c), ":", NumStr(x.v)>>
      [] x.form = "verse" -> <<" ", NumStr(x.c), ":", NumStr(x.v), x.dash, NumStr(x.w)>>
      [] x.form = "chapter" ->
           <<" ", NumStr(x.c), ":", NumStr(x.v), x.dash, NumStr(x.c2), ":", NumStr(x.w)>>
      [] OTHER -> <<" ", NumStr(x.c), ":", NumStr(x.v), ":", NumStr(x.c2), ":", NumStr(x.w)>>

InitRef ==
    /\ nodes = <<>> /\ book = "" /\ currnode = None /\ cref = NoRef
    /\ fncount = 0 /\ pendinglstrip = FALSE /\ skipping = FALSE /\ verse_pending = FALSE
    /\ files = <<>> /\ fnkeys = <<>> /\ docs = NoDocs /\ books = NoBooks /\ fnqs = NoFnqs
    /\ nread = 0 /\ row = EmptyRow /\ refsSeen = {} /\ booksSeen = {}
    /\ pc = "parse" /\ refin \in RefInputs /\ refres = NoMatch
    /\ fntab = <<>> /\ fnpos = 0 /\ replay = NoReplay /\ web = NoWeb

\* res, start, end = canonref(text)
ParseRef ==
    /\ pc = "parse" /\ pc' = "parsed"
    /\ refres' = canonref(RefText(refin))
    /\ UNCHANGED <<nodes, book, currnode, cref, fncount, pendinglstrip, skipping, verse_pending,
                   files, fnkeys, docs, books, fnqs, nread, row, refsSeen, booksSeen, refin, fntab, fnpos, replay, web>>

NextRef == ParseRef

SpecRef == InitRef /\ [][NextRef]_vars

------------------------------------------------------------------------------
(* The footnote table loader (lines 425-436) on its own: the rows of the    *)
(* table file are read one by one into the dict fnqs                        *)

\* the values of column 0 and the style lists r[1:] of the rows of a table
FnRefs == {"GEN 1:1", "GEN 1:2"}
FnLists == {<<"fq">>, <<"fqa">>, <<"fqa", "fq">>}

\* longest table read
MaxTable == 3

FnRow(k, l) == [key |-> k, styles |-> l]

FnTables == UNION {[1..n -> {FnRow(k, l) : k \in FnRefs, l \in FnLists}] : n \in 0..MaxTable}

\* the local lastref of the loader: it is set to None before the loop and never
\* assigned again; "None" is no value of column 0
LoaderLastRef == "None"

\* the key a row is stored under; a row whose column 0 equals lastref would run
\* "count += 1" with count unbound, which raises NameError
LoadKey(r, lastref) ==
    IF r.key = lastref THEN [exc |-> TRUE, key |-> ""] ELSE [exc |-> FALSE, key |-> r.key]

\* fnqs[key] = r[1:]
DictSet(d, k, v) == [x \in DOMAIN d \cup {k} |-> IF x = k THEN v ELSE d[x]]

InitFn ==
    /\ nodes = <<>> /\ book = "" /\ currnode = None /\ cref = NoRef
    /\ fncount = 0 /\ pendinglstrip = FALSE /\ skipping = FALSE /\ verse_pending = FALSE
    /\ files = <<>> /\ fnkeys = <<>> /\ docs = NoDocs /\ books = NoBooks /\ fnqs = NoFnqs
    /\ nread = 0 /\ row = EmptyRow /\ refsSeen = {} /\ booksSeen = {}
    /\ refin = NoText /\ refres = NoMatch
    /\ pc = "load" /\ fntab \in FnTables /\ fnpos = 0 /\ replay = NoReplay /\ web = NoWeb

\* one pass of "for r in rdr"
LoadRow ==
    /\ pc = "load" /\ fnpos < Len(fntab)
    /\ fnpos' = fnpos + 1
    /\ IF LoadKey(fntab[fnpos + 1], LoaderLastRef).exc
       THEN pc' = "aborted" /\ fnqs' = fnqs
       ELSE pc' = pc /\ fnqs' = DictSet(fnqs, LoadKey(fntab[fnpos + 1], LoaderLastRef).key,
                                        fntab[fnpos + 1].styles)
    /\ UNCHANGED <<nodes, book, currnode, cref, fncount, pendinglstrip, skipping, verse_pending,
                   files, fnkeys, docs, books, nread, row, refsSeen, booksSeen, refin, refres,
                   fntab, replay, web>>

\* the end of the table file
LoadEnd ==
    /\ pc = "load" /\ fnpos = Len(fntab)
    /\ pc' = "loaded"
    /\ UNCHANGED <<nodes, book, currnode, cref, fncount, pendinglstrip, skipping, verse_pending,
                   files, fnkeys, docs, books, fnqs, nread, row, refsSeen, booksSeen, refin, refres,
                   fntab, fnpos, replay, web>>

NextFn == LoadRow \/ LoadEnd

SpecFn == InitFn /\ [][NextFn]_vars

------------------------------------------------------------------------------
(* The same table converted twice: two Processor objects, one after the     *)
(* other, over the same rows and the same configuration                     *)

\* longest table converted twice (rows after the header)
MaxTape == 2

TapeRows == {DemoRow1, BodyOnly12, RedBody12, Noted11, Noted12, NotedWord, RedPar21,
             FirstLine21, Quoted, Exodus11, UnknownBookRow, JunkRow, AcrosticRow, CloserRow}

Tapes == UNION {[1..n -> TapeRows] : n \in 0..MaxTape}

\* Processor.__init__ leaving the document and the cursor as the object S before had them
NewProcessor_stale(S) ==
    [nodes |-> S.nodes, book |-> S.book, currnode |-> S.currnode, cref |-> NoRef, fncount |-> 0,
     pendinglstrip |-> FALSE, skipping |-> FALSE, verse_pending |-> FALSE,
     files |-> <<>>, fnkeys |-> <<>>, docs |-> NoDocs, exc |-> FALSE]

\* Processor.__init__: every field is set anew whatever the object S before held;
\* the write log and the key log of the model start empty with the run
NewProcessor(S) ==
    [nodes |-> <<>>, book |-> "", currnode |-> None, cref |-> NoRef, fncount |-> 0,
     pendinglstrip |-> FALSE, skipping |-> FALSE, verse_pending |-> FALSE,
     files |-> <<>>, fnkeys |-> <<>>, docs |-> NoDocs, exc |-> FALSE]

InitTwo ==
    /\ nodes = <<>> /\ book = "" /\ currnode = None /\ cref = NoRef
    /\ fncount = 0 /\ pendinglstrip = FALSE /\ skipping = FALSE /\ verse_pending = FALSE
    /\ files = <<>> /\ fnkeys = <<>> /\ docs = NoDocs
    /\ \E c \in Configs : books = c[1] /\ fnqs = c[2]
    /\ pc = "rows" /\ nread = 0 /\ row = EmptyRow
    /\ refsSeen = {} /\ booksSeen = {}
    /\ refin = NoText /\ refres = NoMatch
    /\ fntab = <<>> /\ fnpos = 0
    /\ \E t \in Tapes : replay = [tape |-> t, pass |-> 1, step |-> 0, log |-> <<>>]
    /\ web = NoWeb

\* the Processor S after a step goes to the variables, and to the log in the first run
Keep(S, next) ==
    /\ Store(S, next)
    /\ replay' = [replay EXCEPT !.step = @ + 1,
                                !.log = IF replay.pass = 1 THEN Append(@, S) ELSE @]

\* job.processline(r) for the next row of the table
TapeRow ==
    /\ pc = "rows" /\ nread < Len(replay.tape)
    /\ row' = replay.tape[nread + 1]
    /\ Keep(processline(State, replay.tape[nread + 1]), "rows")
    /\ nread' = nread + 1
    /\ UNCHANGED <<books, fnqs, refsSeen, booksSeen, refin, refres, fntab, fnpos, web>>

\* the end of the table: job.writedoc()
TapeEnd ==
    /\ pc = "rows" /\ nread = Len(replay.tape)
    /\ Keep(writedoc(State), "done")
    /\ UNCHANGED <<books, fnqs, nread, row, refsSeen, booksSeen, refin, refres, fntab, fnpos, web>>

\* the second run: a new Processor with the same arguments, the table read again
SecondRun ==
    /\ pc \in {"done", "aborted"} /\ replay.pass = 1
    /\ Store(NewProcessor(State), "rows")
    /\ nread' = 0 /\ row' = EmptyRow
    /\ replay' = [replay EXCEPT !.pass = 2, !.step = 0]
    /\ UNCHANGED <<books, fnqs, refsSeen, booksSeen, refin, refres, fntab, fnpos, web>>

NextTwo == TapeRow \/ TapeEnd \/ SecondRun

SpecTwo == InitTwo /\ [][NextTwo]_vars

------------------------------------------------------------------------------
(* The web service (src/web/app.py).  The variable web holds                *)
(*   free       IS_RENDER_FREE                                              *)
(*   clock      the time, in ticks; a job identifier is the time of its     *)
(*              request to the second, here to the tick                     *)
(*   disk       the files under the upload and the output folder            *)
(*   dirs       the job directories under the two folders                   *)
(*   reqs       the conversion requests: id, pc, rc (the return code of the *)
(*              script), paths (the files the request wrote) and members    *)
(*              (the files it put in its archive)                           *)
(*   waits      the threads that sleep before cleanup_job_files             *)
(*   downloads  the download requests served: found is the result of the    *)
(*              test os.path.exists, sent whether send_file found the file  *)
(*   last       the last call of cleanup_old_files, when nothing happened   *)
(*              since: the files it removed for their age (aged) and for    *)
(*              the size limit (sized), and whether a removal failed        *)
(* A handler is one step, but convert_files, which is cut at the call of    *)
(* the script (a subprocess that runs while other requests are served) and  *)
(* at the start of the cleanup thread.                                      *)

\* the limits of app.py in ticks and size units: a job lasts less than a file may age
MAX_FILE_AGE == 2
MAX_TOTAL_SIZE == 5
CLEANUP_AFTER_DOWNLOAD == 1
\* subprocess.run(..., timeout=300)
RunTimeout == 1

MaxClock == 3
MaxJobs == 2
MaxBooks == 1
MaxDownloads == 1

\* the folder itself, for a file that lies in no job directory
BaseDir == 0 - 1

script == <<nodes, book, currnode, cref, fncount, pendinglstrip, skipping, verse_pending,
            files, fnkeys, docs, books, fnqs, pc, nread, row, refsSeen, booksSeen, refin,
            refres, fntab, fnpos, replay>>

File(dir, job, name, mtime, size) ==
    [dir |-> dir, job |-> job, name |-> name, mtime |-> mtime, size |-> size]

Path(f) == [dir |-> f.dir, job |-> f.job, name |-> f.name]

Paths(fs) == {Path(f) : f \in fs}

Dir(dir, job) == [dir |-> dir, job |-> job]

\* open(path, "w"): a file of that path is replaced
WriteFile(disk, f) == {g \in disk : Path(g) # Path(f)} \cup {f}

RECURSIVE WriteFiles(_, _)
WriteFiles(disk, fs) ==
    IF fs = {} THEN disk
    ELSE LET f == CHOOSE g \in fs : TRUE IN WriteFiles(WriteFile(disk, f), fs \ {f})

\* total_size += file_size
RECURSIVE Size(_)
Size(fs) ==
    IF fs = {} THEN 0
    ELSE LET f == CHOOSE g \in fs : TRUE IN f.size + Size(fs \ {f})

\* the files the scan of cleanup_old_files lists
Scanned(disk) == {f \in disk : f.name # ".gitkeep"}

\* the list sorted with the newest file first
Oldest_newest(fs) == {f \in fs : \A g \in fs : f.mtime >= g.mtime}

\* file_list.sort(key=lambda x: x['mtime']): the files that may come first
Oldest(fs) == {f \in fs : \A g \in fs : f.mtime <= g.mtime}

\* the loop over the sorted list: the possible sets of removed files, one for every
\* order the sort may leave files of the same time in; os.remove fails on the files
\* of `locked`
RECURSIVE SizePhase(_, _, _)
SizePhase(rest, total, locked) ==
    IF total <= MAX_TOTAL_SIZE \/ rest = {} THEN {[gone |-> {}, failed |-> FALSE]}
    ELSE UNION {IF f \in locked
                THEN {[o EXCEPT !.failed = TRUE] : o \in SizePhase(rest \ {f}, total, locked)}
                ELSE {[o EXCEPT !.gone = @ \cup {f}] :
                         o \in SizePhase(rest \ {f}, total - f.size, locked)}
                : f \in Oldest(rest)}

\* os.rmdir of the job directories that hold no file
PruneDirs(dirs, disk) == {d \in dirs : \E f \in disk : f.dir = d.dir /\ f.job = d.job}

\* the service w after the age phase removed the files of `old` that are not locked
\* and the size phase had the outcome o
Swept(w, old, locked, o) ==
    [w EXCEPT !.disk = (@ \ (old \ locked)) \ o.gone,
              !.dirs = PruneDirs(@, (w.disk \ (old \ locked)) \ o.gone),
              !.last = [op |-> "cleanup_old_files", aged |-> old \ locked, sized |-> o.gone,
                        failed |-> o.failed \/ old \cap locked # {}]]

AgePhase(w, list, old, locked) ==
    {Swept(w, old, locked, o) :
        o \in SizePhase(list \ (old \ locked), Size(list \ (old \ locked)), locked)}

\* cleanup_old_files(): the states it may leave
cleanup_old_files(w, locked) ==
    AgePhase(w, Scanned(w.disk),
             {f \in Scanned(w.disk) : w.clock - f.mtime > MAX_FILE_AGE}, locked)

\* at most one file whose removal fails (in the cleanup threads; the calls within
\* convert_files are taken without failure)
Locks(disk) == {{}} \cup {{f} : f \in Scanned(disk)}

\* cleanup_job_files(job_id): shutil.rmtree of the two job directories
cleanup_job_files(w, id) ==
    [w EXCEPT !.disk = {f \in @ : f.job # id},
              !.dirs = {d \in @ : d.job # id}]

InFlight == {"begun", "ran", "scheduled"}

OutNames == <<"GEN.usfm", "EXO.usfm">>

IsUsfm(name) == \E i \in 1..Len(OutNames) : OutNames[i] = name

ZipName == "output.zip"

\* the file that keeps the upload folder in the repository, and a file an earlier
\* life of the server may have left
GitKeep == File("uploads", BaseDir, ".gitkeep", 0, 1)
Leftover == File("outputs", BaseDir, "GEN.usfm", 0, 1)

InitWeb ==
    /\ nodes = <<>> /\ book = "" /\ currnode = None /\ cref = NoRef
    /\ fncount = 0 /\ pendinglstrip = FALSE /\ skipping = FALSE /\ verse_pending = FALSE
    /\ files = <<>> /\ fnkeys = <<>> /\ docs = NoDocs
    /\ books = NoBooks /\ fnqs = NoFnqs
    /\ pc = "serving" /\ nread = 0 /\ row = EmptyRow
    /\ refsSeen = {} /\ booksSeen = {}
    /\ refin = NoText /\ refres = NoMatch
    /\ fntab = <<>> /\ fnpos = 0 /\ replay = NoReplay
    /\ \E fr \in BOOLEAN, left \in {{GitKeep}, {GitKeep, Leftover}} :
          web = [NoWeb EXCEPT !.free = fr, !.disk = left]

\* convert_files, lines 222-261: the job identifier, the two directories and the
\* uploaded file
StartJob(w, upload) ==
    [w EXCEPT !.dirs = @ \cup {Dir("uploads", w.clock), Dir("outputs", w.clock)},
              !.disk = IF upload THEN WriteFile(@, File("uploads", w.clock, "fnotes.csv", w.clock, 2))
                       ELSE @,
              !.reqs = Append(@, [id |-> w.clock, pc |-> "begun", rc |-> 0,
                                  paths |-> IF upload
                                            THEN {[dir |-> "uploads", job |-> w.clock,
                                                   name |-> "fnotes.csv"]}
                                            ELSE {},
                                  members |-> {}]),
              !.last = NoSweep]

\* convert_files up to the call of the script; on the free tier cleanup_old_files
\* comes first (lines 218-219)
Begin ==
    /\ pc = "serving" /\ Len(web.reqs) < MaxJobs
    /\ \E upload \in BOOLEAN :
          \E w \in (IF web.free THEN cleanup_old_files(web, {}) ELSE {web}) :
             web' = StartJob(w, upload)
    /\ UNCHANGED script

\* the files the script writes for n books
Outputs(w, id, n) == {File("outputs", id, OutNames[i], w.clock, 1) : i \in 1..n}

\* subprocess.run(cmd, ...): the script writes a file for each of n books, or fails;
\* it fails when the output directory is gone
RunJob(w, i, n) ==
    IF n = 0 \/ Dir("outputs", w.reqs[i].id) \notin w.dirs
    THEN [w EXCEPT !.reqs[i].pc = "ran", !.reqs[i].rc = 1, !.last = NoSweep]
    ELSE [w EXCEPT !.disk = WriteFiles(@, Outputs(w, w.reqs[i].id, n)),
                   !.reqs[i].pc = "ran",
                   !.reqs[i].paths = @ \cup Paths(Outputs(w, w.reqs[i].id, n)),
                   !.last = NoSweep]

Run ==
    /\ pc = "serving"
    /\ \E i \in 1..Len(web.reqs), n \in 0..MaxBooks :
          /\ web.reqs[i].pc = "begun"
          /\ web' = RunJob(web, i, n)
    /\ UNCHANGED script

\* lines 296-302: cleanup_old_files at once on the free tier, in a thread of its own
\* otherwise (the thread is the step Sweep)
Sched ==
    /\ pc = "serving"
    /\ \E i \in 1..Len(web.reqs) :
          /\ web.reqs[i].pc = "ran"
          /\ \E w \in (IF web.free THEN cleanup_old_files(web, {})
                       ELSE {[web EXCEPT !.last = NoSweep]}) :
                web' = [w EXCEPT !.reqs[i].pc = "scheduled"]
    /\ UNCHANGED script

\* glob.glob(os.path.join(output_dir, '*.usfm'))
Globbed(w, id) == {f \in w.disk : f.dir = "outputs" /\ f.job = id /\ IsUsfm(f.name)}

\* lines 304-339: the archive of the files found in the output directory
ZipJob(w, i) ==
    IF w.reqs[i].rc # 0 THEN [w EXCEPT !.reqs[i].pc = "failed", !.last = NoSweep]
    ELSE IF Globbed(w, w.reqs[i].id) = {}
    THEN [w EXCEPT !.reqs[i].pc = "empty", !.last = NoSweep]
    ELSE [w EXCEPT !.disk = WriteFile(@, File("outputs", w.reqs[i].id, ZipName, w.clock, 1)),
                   !.reqs[i].pc = "zipped",
                   !.reqs[i].members = Paths(Globbed(w, w.reqs[i].id)),
                   !.last = NoSweep]

Zip ==
    /\ pc = "serving"
    /\ \E i \in 1..Len(web.reqs) :
          /\ web.reqs[i].pc = "scheduled"
          /\ web' = ZipJob(web, i)
    /\ UNCHANGED script

\* cleanup_old_files in a thread: the periodic thread, the thread convert_files
\* starts, the thread the index page starts on the free tier
Sweep ==
    /\ pc = "serving"
    /\ \E locked \in Locks(web.disk) : web' \in cleanup_old_files(web, locked)
    /\ UNCHANGED script

\* download_result and download_single_file for the file `name` of job id: on the
\* free tier cleanup_job_files runs before send_file, otherwise a thread is started
\* that sleeps first
download(w, id, name, found) ==
    LET w1 == IF ~found THEN w
              ELSE IF w.free THEN cleanup_job_files(w, id)
              ELSE [w EXCEPT !.waits = @ \cup {[job |-> id,
                                                due |-> w.clock + CLEANUP_AFTER_DOWNLOAD]}]
    IN [w1 EXCEPT !.downloads =
                     Append(@, [job |-> id, name |-> name, found |-> found,
                                sent |-> found /\ [dir |-> "outputs", job |-> id,
                                                   name |-> name] \in Paths(w1.disk)]),
                  !.last = NoSweep]

Download ==
    /\ pc = "serving" /\ Len(web.downloads) < MaxDownloads
    /\ \E i \in 1..Len(web.reqs), name \in {ZipName, OutNames[1]} :
          web' = download(web, web.reqs[i].id, name,
                          [dir |-> "outputs", job |-> web.reqs[i].id, name |-> name]
                              \in Paths(web.disk))
    /\ UNCHANGED script

\* cleanup_after_download: time.sleep(CLEANUP_AFTER_DOWNLOAD), cleanup_job_files(job_id)
JobThread ==
    /\ pc = "serving"
    /\ \E t \in web.waits :
          /\ web.clock >= t.due
          /\ web' = [cleanup_job_files(web, t.job) EXCEPT !.waits = @ \ {t},
                                                          !.last = NoSweep]
    /\ UNCHANGED script

\* time passes; the script of a job is stopped at its timeout
Tick ==
    /\ pc = "serving" /\ web.clock < MaxClock
    /\ \A i \in 1..Len(web.reqs) :
          web.reqs[i].pc \in InFlight => web.clock + 1 - web.reqs[i].id <= RunTimeout
    /\ web' = [web EXCEPT !.clock = @ + 1, !.last = NoSweep]
    /\ UNCHANGED script

NextWeb == Begin \/ Run \/ Sched \/ Zip \/ Sweep \/ Download \/ JobThread \/ Tick

SpecWeb == InitWeb /\ [][NextWeb]_vars

------------------------------------------------------------------------------
(* ensurespace applied twice to the root of a small tree: nodes is the tree, *)
(* replay.step the number of calls made and replay.log the trees before the  *)
(* calls                                                                     *)

MaxCalls == 2

SpaceTexts == {<<>>, <<"God">>, <<"God", " ">>, <<"God", "\n">>}

\* a paragraph with the text t
LeafTree(t) == <<[Node("para", "p", "", None) EXCEPT !.text = t]>>

\* a paragraph with the text t1 that holds a character run with the text t2 and the
\* tail t3
RunTree(t1, t2, t3) ==
    <<[Node("para", "p", "", None) EXCEPT !.text = t1, !.kids = <<2>>],
      [Node("char", "wj", "", 1) EXCEPT !.text = t2, !.tail = t3]>>

\* a paragraph with the text t1 that holds a footnote with the tail t3, whose char
\* has the text t2
NoteTree(t1, t2, t3) ==
    <<[Node("para", "p", "", None) EXCEPT !.text = t1, !.kids = <<2>>],
      [Node("note", "f", "+", 1) EXCEPT !.tail = t3, !.kids = <<3>>],
      [Node("char", "ft", "", 2) EXCEPT !.text = t2]>>

SpaceTrees ==
    {LeafTree(t) : t \in SpaceTexts}
    \cup {RunTree(t[1], t[2], t[3]) : t \in SpaceTexts \X SpaceTexts \X SpaceTexts}
    \cup {NoteTree(t[1], t[2], t[3]) : t \in SpaceTexts \X SpaceTexts \X SpaceTexts}

InitSpace ==
    /\ nodes \in SpaceTrees /\ currnode = 1
    /\ book = "" /\ cref = NoRef
    /\ fncount = 0 /\ pendinglstrip = FALSE /\ skipping = FALSE /\ verse_pending = FALSE
    /\ files = <<>> /\ fnkeys = <<>> /\ docs = NoDocs
    /\ books = NoBooks /\ fnqs = NoFnqs
    /\ pc = "space" /\ nread = 0 /\ row = EmptyRow
    /\ refsSeen = {} /\ booksSeen = {}
    /\ refin = NoText /\ refres = NoMatch
    /\ fntab = <<>> /\ fnpos = 0 /\ replay = NoReplay /\ web = NoWeb

\* ensurespace(parent)
EnsureSpace ==
    /\ pc = "space" /\ replay.step < MaxCalls
    /\ nodes' = ensurespace(nodes, currnode)
    /\ replay' = [replay EXCEPT !.step = @ + 1, !.log = Append(@, nodes)]
    /\ UNCHANGED <<book, currnode, cref, fncount, pendinglstrip, skipping, verse_pending,
                   files, fnkeys, docs, books, fnqs, pc, nread, row, refsSeen, booksSeen,
                   refin, refres, fntab, fnpos, web>>

NextSpace == EnsureSpace

SpecSpace == InitSpace /\ [][NextSpace]_vars

------------------------------------------------------------------------------
(* Reading the tree *)

Ids == 1..Len(nodes)

RECURSIVE HasParaAncestor(_)
HasParaAncestor(n) ==
    nodes[n].parent # None
    /\ (nodes[nodes[n].parent].tag = "para" \/ HasParaAncestor(nodes[n].parent))

TextItems(t) == [i \in 1..Len(t) |-> [id |-> 0, tok |-> t[i]]]

\* n and everything under it in document order: a node is the item [id |-> n], a
\* token of a text or a tail is the item [id |-> 0, tok |-> token]
RECURSIVE Flat(_)
RECURSIVE FlatKids(_, _)
Flat(n) == <<[id |-> n, tok |-> ""]>> \o TextItems(nodes[n].text) \o FlatKids(nodes[n].kids, 1)
FlatKids(kids, i) ==
    IF i > Len(kids) THEN <<>>
    ELSE Flat(kids[i]) \o TextItems(nodes[kids[i]].tail) \o FlatKids(kids, i + 1)

DocItems == IF nodes = <<>> THEN <<>> ELSE Flat(1)

IsTag(item, tag) == item.id # 0 /\ nodes[item.id].tag = tag

\* the number of the chapter node that precedes position p of DocItems ("" when none)
ChapterAt(p) ==
    LET before == {q \in 1..p : IsTag(DocItems[q], "chapter")}
    IN IF before = {} THEN ""
       ELSE nodes[DocItems[CHOOSE q \in before : \A x \in before : x <= q].id].attr

\* the verse-marker nodes of reference r in the open document
VerseMarkers(r) ==
    {p \in 1..Len(DocItems) : /\ IsTag(DocItems[p], "verse")
                              /\ nodes[DocItems[p].id].attr = NumStr(r.verse)
                              /\ ChapterAt(p) = NumStr(r.chapter)}

------------------------------------------------------------------------------
(* Claims *)

\* C1: no char node of the open document is a direct child of the document root, and
\* every char node has a para node among its ancestors.
C1_CharInsidePara ==
    \A n \in Ids : nodes[n].tag = "char" => nodes[n].parent # 1 /\ HasParaAncestor(n)

\* C2: every para node is a direct child of the document root (never nested under a
\* para or a char node), whatever entry of the style table inserted it.
C2_ParaUnderRoot ==
    \A n \in Ids : nodes[n].tag = "para" => nodes[n].parent = 1

\* C3: when the run has ended on a book that is not skipped, the finished document
\* holds exactly one verse-marker node for every reference met in that book's rows.
C3_OneMarkerPerVerse ==
    (pc = "done" /\ ~skipping) => \A r \in refsSeen : Cardinality(VerseMarkers(r)) = 1

\* words that only the verse cells of the rows supply (paragraph introduction, body,
\* footnote), never a heading, a cross-reference or the title page
VerseWords == {"In", "the", "beginning", "Now", "God", "said,", "Let", "be", "and", "Selah",
               "Hebrew", "yom", "day", "See", "or", "light"}

\* C4: in document order a verse marker precedes all content inserted for its verse by
\* the paragraph-introduction, leading-punctuation, body, trailing-punctuation,
\* footnote and closing-text cells: no word of those cells stands in the tree with no
\* verse marker before it.
C4_MarkerBeforeContent ==
    \A p \in 1..Len(DocItems) :
        DocItems[p].tok \in VerseWords => \E q \in 1..p : IsTag(DocItems[q], "verse")

\* a footnote is composed by the row just read
NoteComposed(r) == r.footnotes # <<>>

\* C5: the footnote counter is reset exactly when the verse reference changes: a row
\* whose reference differs from the current one restarts the count, and a row whose
\* reference cell is empty, unparseable or equal to the current reference keeps it.
C5_ResetOnChange ==
    [][(pc = "rows" /\ pc' = "rows" /\ nread' = nread + 1 /\ ~skipping')
         => LET p == ParsedRef(row')
                n == IF NoteComposed(row') THEN 1 ELSE 0
            IN IF p # NoRef /\ p # cref THEN fncount' = n ELSE fncount' = fncount + n]_vars

\* C6: the key of a footnote's styles is the bare reference for the first footnote
\* composed on a verse and "<ref>[n]" for the one composed after n >= 1 earlier
\* footnotes on the same verse.
C6_KeyNumbering ==
    \A i \in 1..Len(fnkeys) :
        fnkeys[i].key = FnKey(fnkeys[i].ref,
                              Cardinality({j \in 1..(i - 1) : fnkeys[j].ref = fnkeys[i].ref}))

\* the words of the body cells, each cell padded with a space on both sides
BodyWords == {"In", "the", "beginning", "Now", "God", "said,", "Let", "be", "and"}

\* all the text of paragraph n in document order
RECURSIVE ParaText(_)
RECURSIVE ParaKidsText(_, _)
ParaText(n) == nodes[n].text \o ParaKidsText(nodes[n].kids, 1)
ParaKidsText(kids, i) ==
    IF i > Len(kids) THEN <<>>
    ELSE ParaText(kids[i]) \o nodes[kids[i]].tail \o ParaKidsText(kids, i + 1)

\* C7: the text of a paragraph in document order never holds two words of
\* space-separated body cells glued together with no space between them.
C7_NoGluedWords ==
    \A n \in Ids : nodes[n].tag = "para" =>
        \A i \in 1..(Len(ParaText(n)) - 1) :
            ~(ParaText(n)[i] \in BodyWords /\ ParaText(n)[i + 1] \in BodyWords)

\* the paragraphs that follow the chapter node numbered c among the root's children
ChapterParas(c) ==
    {n \in Ids : nodes[n].tag = "para" /\ nodes[n].parent = 1
                 /\ \E p \in 1..Len(DocItems) : DocItems[p].id = n /\ ChapterAt(p) = c}

\* C8: one row "Genesis 1:1" with only the body cell " In the beginning " gives a GEN
\* document whose chapter 1 holds exactly one paragraph: a verse marker numbered 1
\* followed by the body text without its outer spaces and with its inner spacing kept.
C8_SingleRow ==
    (row = BodyOnly11 /\ nread = 2 /\ pc \in {"rows", "done"}) =>
        /\ book = "GEN"
        /\ \E P \in Ids :
             /\ ChapterParas("1") = {P}
             /\ nodes[P].text = <<>>
             /\ Len(nodes[P].kids) = 1
             /\ nodes[nodes[P].kids[1]].tag = "verse"
             /\ nodes[nodes[P].kids[1]].attr = "1"
             /\ nodes[nodes[P].kids[1]].tail = <<"In", " ", "the", " ", "beginning">>

\* the tokens of the inline span of body cell BodyRed
SpanMarkup == {SpanTag("red"), "</span>"}

HasMarkup(t) == \E i \in 1..Len(t) : t[i] \in SpanMarkup

\* C9: a body cell with the inline span <span class=|red|>Let be</span>, read while a
\* paragraph is open, gives a char node styled wj with the text "Let be" inside the
\* enclosing paragraph, and the tokens of the pseudo-tag never stand as literal text
\* in the tree.
C9_RedSpan ==
    (row = RedBody12 /\ pc = "rows" /\ ~skipping /\ currnode # None
     /\ nodes[currnode].tag = "para") =>
        /\ \A n \in Ids : ~HasMarkup(nodes[n].text) /\ ~HasMarkup(nodes[n].tail)
        /\ \E n \in Ids : /\ nodes[n].tag = "char" /\ nodes[n].style = "wj"
                         /\ nodes[n].text = <<"Let", " ", "be">>
                         /\ HasParaAncestor(n)

Written == {files[i] : i \in 1..Len(files)}

RowStep == pc = "rows" /\ nread' = nread + 1

\* the current reference after the row of this step, when reference tracking works
Tracked == IF ParsedRef(row') # NoRef THEN ParsedRef(row') ELSE cref

\* node n of the tree ns is a chapter node with no text and no children
EmptyChapter(ns, n) ==
    ns[n].tag = "chapter" /\ ns[n].text = <<>> /\ ns[n].tail = <<>> /\ ns[n].kids = <<>>

\* C11 as stated: while the skip flag is set a row updates the current reference as
\* for an included book, and the tree of the excluded book gets no node beyond its
\* title page (no chapter, paragraph, character run, verse marker, note or text).
C11_SkipAddsNothing ==
    [][(RowStep /\ skipping') =>
          /\ cref' = Tracked
          /\ Len(nodes') = Len(Template(book'))]_vars

\* C11 amended: while the skip flag is set a row updates the current reference as
\* for an included book, and all it adds to the tree of the excluded book (which is
\* never written) is the title page and empty chapter nodes: no paragraph, character
\* run, verse marker, note or text of the rows.
C11_SkipAddsChaptersOnly ==
    [][(RowStep /\ skipping') =>
          /\ cref' = Tracked
          /\ \A n \in 2..Len(nodes') :
                IF n <= Len(Template(book')) THEN nodes'[n] = Template(book')[n]
                ELSE EmptyChapter(nodes', n)]_vars

\* C11 witness: a row of Exodus with a paragraph tag, a body and a footnote was read
\* with the allowlist {GEN}: the tree is the title page of EXO and one chapter node.
C11_Witness ==
    /\ skipping /\ pc = "rows" /\ row = Exodus11 /\ cref = ParsedRef(Exodus11)
    /\ Len(nodes) = Len(Template("EXO")) + 1 /\ EmptyChapter(nodes, Len(nodes))

\* C12: each book's file is written exactly once in a run, also when rows of one
\* book are separated by rows of another book.
C12_WrittenOnce ==
    \A i, j \in 1..Len(files) : files[i] = files[j] => i = j

\* C13: a row whose reference cell does not parse to a reference to a known book
\* (pattern mismatch or unknown book name) leaves the current reference, the footnote
\* counter and the open document as they were, and the run goes on.
C13_BadRefGoesOn ==
    [][(RowStep /\ row' \in {BadRefRow, UnknownBookRow}) =>
          /\ pc' = "rows"
          /\ cref' = cref /\ fncount' = fncount /\ book' = book]_vars

\* C14: an insertion none of whose styles resolves to a kind (the b-only chain of
\* tab1 under a section heading, an acrostic tag without "<br> ") is treated as
\* nothing inserted: the cursor stays on a node and the run goes on.
C14_NullInsertGoesOn ==
    [][(RowStep /\ ~skipping'
          /\ (row' = HdgTabRow \/ (row' = AcrosticPlainRow /\ currnode # None))) =>
          /\ pc' = "rows"
          /\ currnode' # None]_vars

\* the text that ends at the cursor: the tail of its last child, or its own text
CursorText(ns, cur) ==
    IF ns[cur].kids # <<>> THEN ns[LastKid(ns, cur)].tail ELSE ns[cur].text

\* the paragraph and character-run nodes of the tree ns
Styled(ns) == {n \in 1..Len(ns) : ns[n].tag \in {"para", "char"}}

\* C15: a cell the scanner cannot read (text that matches no tag pattern, a tag whose
\* class is not in the style table) stops the scan of that cell: no node is made for
\* the offending tag or for what follows it, the nodes of the earlier tags of the cell
\* are kept, the cursor stays where the last good tag left it, and the other cells of
\* the row are processed.
C15_ScanStops ==
    [][(RowStep /\ currnode # None /\ ~skipping) =>
          /\ row' = BadTagRow => nodes' = nodes /\ currnode' = currnode /\ pc' = "rows"
          /\ row' = MissingRow =>
                /\ pc' = "rows"
                /\ Styled(nodes') = Styled(nodes) \cup {Len(nodes) + 1}
                /\ nodes'[Len(nodes) + 1].style = "s1"
                /\ nodes'[Len(nodes) + 1].text[1] = "Eden"
                /\ currnode' = Len(nodes) + 1
                /\ CursorText(nodes', currnode')[Len(CursorText(nodes', currnode'))] = "God"]_vars

\* C15 witness: the row with a good tag, a tag of an unknown class and a third tag
\* was read: the cursor is on the heading of the first tag, the last node of the
\* tree but for a verse marker.
C15_Witness ==
    /\ row = MissingRow /\ pc = "rows" /\ currnode # None
    /\ nodes[currnode].style = "s1" /\ currnode >= Len(nodes) - 1

\* C20: in a footnote the italic segments take the entries of the style list of the
\* footnote's key in order (the k-th italic segment the k-th entry), the segments
\* outside italics are ft and consume no entry: with the list <<fqa, fq>> for
\* GEN 1:1 the one italic segment "yom" of its first footnote is styled fqa.
C20_ItalicTakesNextEntry ==
    (row = Noted11 /\ nread = 2 /\ pc = "rows" /\ ~skipping /\ DOMAIN fnqs # {}) =>
        \E n \in Ids : /\ nodes[n].tag = "char" /\ nodes[n].text = <<"yom">>
                       /\ nodes[n].style = fnqs["GEN 1:1"][1]

\* the books of the documents flushed so far, in order
FlushedBooks(d) == [i \in 1..Len(d.flushed) |-> d.flushed[i].book]

\* C23: every document opened is flushed exactly once: on the row that names another
\* book, as the tree stood before that row (before the new document is made and any
\* node of the new book is inserted), or after the last row; while rows are read all
\* documents but the open one have been flushed, when the run is over all have, and
\* the last document has no node it did not have when it was flushed.
C23_FlushedOnce ==
    [][/\ (RowStep /\ book # "" /\ book' # book) =>
             docs'.flushed = Append(docs.flushed, [book |-> book, size |-> Len(nodes)])
       /\ pc' = "rows" =>
             FlushedBooks(docs') = SubSeq(docs'.opened, 1, Len(docs'.opened) - 1)
       /\ pc' \in {"done", "aborted"} =>
             /\ FlushedBooks(docs') = docs'.opened
             /\ docs'.opened # <<>> =>
                   docs'.flushed[Len(docs'.flushed)].size = Len(nodes')]_vars

ChapterIds(ns) == {n \in 1..Len(ns) : ns[n].tag = "chapter"}

\* the row of this step parses to a reference that opens a new book or whose chapter
\* differs from the chapter of the reference before
OpensChapter ==
    /\ ParsedRef(row') # NoRef
    /\ (ParsedRef(row').book # book \/ ParsedRef(row').chapter # cref.chapter)

\* the tree the cells of such a row start from, but for the chapter node
RowBase == IF ParsedRef(row').book # book THEN Template(ParsedRef(row').book) ELSE nodes

\* the nodes of the tree ns under n and n itself, in document order
RECURSIVE Preorder(_, _)
RECURSIVE PreorderKids(_, _, _)
Preorder(ns, n) == <<n>> \o PreorderKids(ns, ns[n].kids, 1)
PreorderKids(ns, kids, i) ==
    IF i > Len(kids) THEN <<>> ELSE Preorder(ns, kids[i]) \o PreorderKids(ns, kids, i + 1)

\* in the sequence ord of all nodes, node c stands before every node made after it:
\* the nodes made before c fill the places before place c, which holds c
FollowsAll(ord, c) ==
    ord[c] = c /\ {i \in 1..Len(ord) : ord[i] < c} = 1..(c - 1)

RECURSIVE ItemsOf(_, _)
RECURSIVE KidItems(_, _, _)
ItemsOf(ns, n) == <<[id |-> n, tok |-> ""]>> \o TextItems(ns[n].text) \o KidItems(ns, ns[n].kids, 1)
KidItems(ns, kids, i) ==
    IF i > Len(kids) THEN <<>>
    ELSE ItemsOf(ns, kids[i]) \o TextItems(ns[kids[i]].tail) \o KidItems(ns, kids, i + 1)

IsInk(x) == x.tok \notin White

\* the content of the tree ns in document order: its nodes and the tokens of its
\* texts that are not white space
Ink(ns) == IF ns = <<>> THEN <<>> ELSE SelectSeq(ItemsOf(ns, 1), IsInk)

IsPrefix(a, b) == Len(a) <= Len(b) /\ SubSeq(b, 1, Len(a)) = a

\* the k-th cell in the order heading, cross-reference, paragraph introduction,
\* leading punctuation, body, trailing punctuation, closing quote, footnote, closing
\* text
CellStep(S, r, k) ==
    CASE k = 1 -> HeadingCell(S, r.Hdg, FALSE)
      [] k = 2 -> HeadingCell(S, r.Crossref, FALSE)
      [] k = 3 -> HeadingCell(S, r.Par, TRUE)
      [] k = 4 -> RowBegQ(S, r)
      [] k = 5 -> RowBody(S, r)
      [] k = 6 -> EndCell(S, r.pnc, r.pnc)
      [] k = 7 -> EndCell(S, r.endQ, debracket(r.endQ))
      [] k = 8 -> NoteCell(S, r.footnotes)
      [] OTHER -> EndCell(S, r.EndText, r.EndText)

\* applied in that order from the k-th on to the Processor S, every cell puts its
\* content after all the content that is in the tree, and the last leaves the tree ns
RECURSIVE InOrderFrom(_, _, _, _)
InOrderFrom(S, r, k, ns) ==
    IF k > 9 THEN S.nodes = ns
    ELSE /\ IsPrefix(Ink(S.nodes), Ink(CellStep(S, r, k).nodes))
         /\ InOrderFrom(CellStep(S, r, k), r, k + 1, ns)

\* C25: in a row that is not skipped the cells are applied in the order heading,
\* cross-reference, paragraph introduction, leading punctuation, body, trailing
\* punctuation, closing quote, footnote, closing text, and the content of a cell never
\* stands, in document order, before content an earlier cell (or an earlier row) put
\* in the tree.
C25_CellOrder ==
    [][(RowStep /\ ~skipping') => InOrderFrom(RowRef(State, row'), row', 1, nodes')]_vars

\* C25 witness: the row with all nine cells was read in Genesis: the tree ends with
\* the heading, the cross-reference paragraph and the paragraph of the row, which
\* holds a footnote followed by the closing text.
C25_Witness ==
    /\ row = FullRow /\ pc = "rows" /\ ~skipping /\ currnode # None
    /\ nodes[currnode].tag = "para" /\ nodes[currnode].style = "p"
    /\ nodes[currnode].kids # <<>>
    /\ nodes[LastKid(nodes, currnode)].tag = "note"
    /\ nodes[LastKid(nodes, currnode)].tail = <<" ", "Selah">>

VerseIds(ns) == {n \in 1..Len(ns) : ns[n].tag = "verse"}

\* node n of the tree ns lies under node a
RECURSIVE Under(_, _, _)
Under(ns, n, a) == ns[n].parent # None /\ (ns[n].parent = a \/ Under(ns, ns[n].parent, a))

\* S0 is the Processor before the heading cell of a row, S2 the Processor after its
\* cross-reference cell and ns the tree after the row: the two cells made no verse
\* marker and left the pending flag alone, and no paragraph they made holds a verse
\* marker in ns
HeadingsHoldNoMarker(S0, S2, ns) ==
    /\ VerseIds(S2.nodes) = VerseIds(S0.nodes)
    /\ S2.verse_pending = S0.verse_pending
    /\ \A h \in (Len(S0.nodes) + 1)..Len(S2.nodes) :
          S2.nodes[h].tag = "para" => \A v \in VerseIds(ns) : ~Under(ns, v, h)

\* C26: the heading cell and the cross-reference cell of a row insert no verse marker
\* and do not clear the pending flag, only the paragraph introduction or a text
\* append consumes the pending marker, so that after the row no verse marker lies
\* inside a heading or cross-reference paragraph the row made.
C26_NoMarkerInHeading ==
    [][(RowStep /\ ~skipping' /\ pc' = "rows") =>
          HeadingsHoldNoMarker(RowRef(State, row'),
                               CellStep(CellStep(RowRef(State, row'), row', 1), row', 2),
                               nodes')]_vars

\* the tree the row of this step starts from: the title page when it opens a book
TreeBefore ==
    IF ParsedRef(row') # NoRef /\ ParsedRef(row').book # book
    THEN Template(ParsedRef(row').book) ELSE nodes

\* the verse markers the row of this step inserted
NewMarkers == VerseIds(nodes') \ VerseIds(TreeBefore)

\* a verse marker is pending when the cells of the row of this step are read
WasPending == ParsedRef(row') # NoRef \/ verse_pending

\* C27: between two parsed references at most one verse marker is inserted, by
\* whichever path (insert with a pending verse, or the first text append): a row
\* inserts at most one marker and only while one is pending, the pending flag is
\* clear from then on until the next parsed reference, and the marker carries the
\* verse number of the current reference.
C27_OneMarkerPerReference ==
    [][RowStep =>
          /\ Cardinality(NewMarkers) <= 1
          /\ ~WasPending => NewMarkers = {}
          /\ pc' = "rows" => (verse_pending' <=> (WasPending /\ NewMarkers = {}))
          /\ \A v \in NewMarkers : nodes'[v].attr = NumStr(cref'.verse)]_vars

\* C27 witness: the row of Genesis 2:1 whose paragraph tag names a paragraph style
\* and a character style was read: insert put the one verse marker of the row in the
\* q1 paragraph, before the wj run, and the flag is clear.
C27_Witness ==
    /\ row = RedPar21 /\ pc = "rows" /\ ~skipping /\ ~verse_pending
    /\ \E v \in VerseIds(nodes) :
          /\ nodes[v].attr = "1" /\ nodes[nodes[v].parent].style = "q1"
          /\ \A w \in VerseIds(nodes) : w >= v => w = v

\* the child of the root that node n of the tree ns lies in: its paragraph
RECURSIVE TopOf(_, _)
TopOf(ns, n) == IF ns[n].parent \in {None, 1} THEN n ELSE TopOf(ns, ns[n].parent)

RECURSIVE InNote(_, _)
InNote(ns, n) ==
    ns[n].parent # None /\ (ns[ns[n].parent].tag = "note" \/ InNote(ns, ns[n].parent))

\* the character runs insert made in the tree ns since it had `old` nodes (the runs of
\* a footnote are made by the footnote composer)
InsertedRuns(ns, old) ==
    {n \in (old + 1)..Len(ns) : ns[n].tag = "char" /\ ~InNote(ns, n)}

\* in the sequence of items the last text token before node n, if any, is white space
SpaceBefore(items, n) ==
    \A p \in 1..Len(items) :
        (items[p].id = 0 /\ \E q \in (p + 1)..Len(items) :
                                /\ items[q].id = n
                                /\ \A x \in (p + 1)..(q - 1) : items[x].id # 0)
          => items[p].tok \in White

\* tree b is tree a but for at most one space appended to one text or tail
OneSpaceMore(a, b) ==
    /\ Len(a) = Len(b)
    /\ Cardinality({n \in 1..Len(a) : a[n] # b[n]}) <= 1
    /\ \A n \in 1..Len(a) :
          \/ b[n] = a[n]
          \/ b[n] = [a[n] EXCEPT !.text = Append(@, " ")]
          \/ b[n] = [a[n] EXCEPT !.tail = Append(@, " ")]

\* C28: when insert has added a character run, the text that directly precedes the
\* run in document order inside its paragraph (elements without text, such as a verse
\* marker, skipped) is empty or ends in white space, and ensurespace adds at most one
\* space to the tree to achieve this.
C28_SpaceBeforeRun ==
    [][(RowStep /\ pc' = "rows") =>
          /\ \A n \in InsertedRuns(nodes', Len(TreeBefore)) :
                SpaceBefore(ItemsOf(nodes', TopOf(nodes', n)), n)
          /\ currnode' # None => OneSpaceMore(nodes', ensurespace(nodes', currnode'))]_vars

\* the class of the tag a paragraph-introduction cell starts with, "" when none
ParClass(r) == IF r.Par # <<>> /\ r.Par[1] \in PTags THEN ClassOf(r.Par[1]) ELSE ""

\* the classes whose style chain starts with "b"
BClasses == {c \in ClassNames : ptypes(c).kind = "style" /\ ptypes(c).styles[1] = "b"}

\* the entry of class c with "b" taken out of its chain
WithoutB(c) == [ptypes(c) EXCEPT !.styles = Tail(@)]

BParas(ns) == {n \in 1..Len(ns) : ns[n].tag = "para" /\ ns[n].style = "b"}

\* the Processor S2 reads the tag of class c with the text txt as a paragraph
\* introduction: under a cursor of a section-paragraph style the insert is the insert
\* of the chain without "b" and the tree gets no b paragraph, under another cursor
\* the first node made is a b paragraph under the root; S3 is the Processor after
\* the cell
BRule(S2, c, txt, S3) ==
    IF marker_categories(S2.nodes[S2.currnode].style) = "sectionpara"
    THEN /\ addto(S2.nodes, ptypes(c), S2.currnode, txt, TRUE, TRUE,
                  IF S2.verse_pending THEN S2.cref ELSE NoRef)
              = addto(S2.nodes, WithoutB(c), S2.currnode, txt, TRUE, TRUE,
                      IF S2.verse_pending THEN S2.cref ELSE NoRef)
         /\ BParas(S3.nodes) = BParas(S2.nodes)
    ELSE /\ BParas(S3.nodes) = BParas(S2.nodes) \cup {Len(S2.nodes) + 1}
         /\ S3.nodes[Len(S2.nodes) + 1].parent = RootOf(S2.nodes, S2.currnode)
         /\ RootOf(S2.nodes, S2.currnode) = 1

\* the Processor before the paragraph-introduction cell of row r read in state S0
BeforePar(S0, r) == CellStep(CellStep(S0, r, 1), r, 2)

\* C29: an insertion whose chain holds "b", made while the cursor is on a node of a
\* section-paragraph style, adds no b paragraph and inserts the other styles of the
\* chain exactly as if "b" were absent; under a cursor of any other style the b
\* paragraph is inserted at the root.
C29_BlankSuppressed ==
    [][(RowStep /\ ~skipping' /\ ParClass(row') \in BClasses
          /\ ~BeforePar(RowRef(State, row'), row').exc
          /\ BeforePar(RowRef(State, row'), row').currnode # None) =>
          BRule(BeforePar(RowRef(State, row'), row'), ParClass(row'),
                strip(Tail(row'.Par)),
                CellStep(BeforePar(RowRef(State, row'), row'), row', 3))]_vars

\* C29 witness: the row of Genesis 2:1 with a heading and the paragraph tag of the
\* chain b, q1 was read: the tree holds no b paragraph and the cursor is on the q1
\* paragraph under the root, which follows the s1 heading.
C29_Witness ==
    /\ row = FirstLine21 /\ pc = "rows" /\ ~skipping /\ BParas(nodes) = {}
    /\ currnode # None /\ nodes[currnode].style = "q1" /\ nodes[currnode].parent = 1
    /\ nodes[currnode - 1].style = "s1"

\* the Processor after the first k cells of row r, read from the Processor S on
RECURSIVE CellsUpTo(_, _, _)
CellsUpTo(S, r, k) == IF k = 0 THEN S ELSE CellStep(CellsUpTo(S, r, k - 1), r, k)

\* the first item in which the content b differs from the content a is white space
FirstNewIsWhite(a, b) ==
    \E p \in 1..Len(b) :
        /\ p > Len(a) \/ a[p] # b[p]
        /\ \A q \in 1..(p - 1) : q <= Len(a) /\ a[q] = b[q]
        /\ b[p].tok \in White

AllItems(ns) == IF ns = <<>> THEN <<>> ELSE ItemsOf(ns, 1)

\* Sa is the Processor before a cell that appends text and Sb the Processor after
\* it: when the flag was set and the cell appended something, what it appended does
\* not start with white space and the flag is clear
StripRule(Sa, Sb) ==
    (Sa.pendinglstrip /\ ~Sb.exc /\ Sb.nodes # Sa.nodes) =>
        /\ ~Sb.pendinglstrip
        /\ ~FirstNewIsWhite(AllItems(Sa.nodes), AllItems(Sb.nodes))

\* the cell appends plain body text that starts with white space while neither the
\* flag nor a verse marker is pending: the text is appended with its white space
KeepRule(Sa, Sb, r) ==
    (/\ ~Sa.exc /\ Sa.currnode # None /\ ~Sa.pendinglstrip /\ ~Sa.verse_pending
     /\ r.body # <<>> /\ r.body[1] \in White /\ IndexFrom(r.body, PTags, 1) = 0
     /\ strip(debracket(r.body)) \notin Placeholders /\ strip(debracket(r.body)) # <<>>)
       => FirstNewIsWhite(AllItems(Sa.nodes), AllItems(Sb.nodes))

\* the cells that append text: body, trailing punctuation, closing quote, closing text
TextCells == {5, 6, 7, 9}

\* C30: once a leading-punctuation cell has set the left-strip flag, the next text
\* appended to the tree has its leading white space stripped and that append clears
\* the flag, whichever cell appends it (plain body, body with paragraph tags,
\* trailing punctuation or closing text after a placeholder or an empty body), and no
\* other text is stripped on account of the flag.
C30_StripOnce ==
    [][(RowStep /\ ~skipping') =>
          /\ \A k \in TextCells :
                StripRule(CellsUpTo(RowRef(State, row'), row', k - 1),
                          CellsUpTo(RowRef(State, row'), row', k))
          /\ KeepRule(CellsUpTo(RowRef(State, row'), row', 4),
                      CellsUpTo(RowRef(State, row'), row', 5), row')]_vars

\* the i-th ancestor of node n in the tree ns (the node itself for i = 0)
RECURSIVE Anc(_, _, _)
Anc(ns, n, i) == IF i = 0 \/ n = None THEN n ELSE Anc(ns, ns[n].parent, i - 1)

\* the number of ancestors of node n
RECURSIVE Depth(_, _)
Depth(ns, n) == IF ns[n].parent = None THEN 0 ELSE 1 + Depth(ns, ns[n].parent)

\* the number of close tags in the text txt
Closers(txt) == Cardinality({i \in 1..Len(txt) : txt[i] \in CloseToks})

\* the Processor after the segments of txt, the first being the one after the i-th
\* close tag, have each been appended at its ancestor of node n
RECURSIVE SegmentsAt(_, _, _, _)
SegmentsAt(S, n, txt, i) ==
    LET k == IndexFrom(txt, CloseToks, 1)
        seg == IF k = 0 THEN txt ELSE SubSeq(txt, 1, k - 1)
        S1 == appendtext([S EXCEPT !.currnode = Anc(S.nodes, n, i)], seg, TRUE, TRUE)
    IN IF k = 0 THEN S1 ELSE SegmentsAt(S1, n, SubSeq(txt, k + 1, Len(txt)), i + 1)

\* Sa is the Processor before a cell with the closing text txt and Sb the Processor
\* after it
ClosersRule(Sa, txt, Sb) ==
    (/\ ~Sa.exc /\ Sa.currnode # None /\ txt # <<>>
     /\ Depth(Sa.nodes, Sa.currnode) >= Closers(txt))
       => /\ ~Sb.exc
          /\ Sb.currnode = Anc(Sa.nodes, Sa.currnode, Closers(txt))
          /\ Sb.nodes = SegmentsAt(Sa, Sa.currnode, txt, 0).nodes

\* the text handed to addend by the k-th cell
EndText(r, k) == IF k = 6 THEN r.pnc ELSE IF k = 7 THEN debracket(r.endQ) ELSE r.EndText

IsNote(node) == node.tag = "note"

\* Sa is the Processor before a footnote cell and Sb the Processor after it, the
\* footnote having been composed: the nodes that were in the tree are as they were
\* but for the new last child of the cursor, and of the new nodes the first, and no
\* other, is a note
NoteFrame(Sa, Sb) ==
    LET cur == Sa.currnode
        new == Len(Sa.nodes) + 1
    IN /\ Sb.currnode = cur
       /\ Sb.cref = Sa.cref
       /\ Sb.verse_pending = Sa.verse_pending
       /\ Sb.pendinglstrip = Sa.pendinglstrip
       /\ Sb.fncount = Sa.fncount + 1
       /\ Len(Sb.nodes) >= new
       /\ Sb.nodes[new].tag = "note"
       /\ Sb.nodes[new].parent = cur
       /\ SubSeq(Sb.nodes, 1, new - 1) = [Sa.nodes EXCEPT ![cur].kids = Append(@, new)]
       /\ Len(SelectSeq(SubSeq(Sb.nodes, new, Len(Sb.nodes)), IsNote)) = 1

\* C32: a footnote cell that is composed appends exactly one note node as the last
\* child of the cursor node and adds one to the footnote counter; the cursor, the
\* current reference, the pending-verse flag and the left-strip flag stay as they
\* were, and so does every node that was in the tree but the cursor's list of
\* children.
C32_NoteFrame ==
    [][(RowStep /\ ~skipping' /\ row'.footnotes # <<>>) =>
          LET Sa == CellsUpTo(RowRef(State, row'), row', 7)
              Sb == CellsUpTo(RowRef(State, row'), row', 8)
          IN (~Sa.exc /\ ~Sb.exc) => NoteFrame(Sa, Sb)]_vars

\* C32 witness: two footnotes were composed at Genesis 1:1: the counter is 2 and the
\* paragraph under the cursor ends with a note.
C32_Witness ==
    /\ pc = "rows" /\ row.footnotes # <<>> /\ row.EndText = <<>>
    /\ currnode # None /\ fncount = 2
    /\ nodes[currnode].kids # <<>>
    /\ nodes[LastKid(nodes, currnode)].tag = "note"

\* C36: once a reference has been parsed and while the book is not skipped, the
\* cursor is a node of the open document other than its root: no close tag in
\* trailing or closing text and no failed insertion leaves it on the root, above the
\* root or null.
C36_CursorInsideTree ==
    (pc = "rows" /\ book # "" /\ ~skipping) =>
        /\ currnode # None
        /\ currnode \in 1..Len(nodes)
        /\ nodes[currnode].parent # None

\* every pass of the scanner loop over the text txt takes at least one token or
\* leaves the loop
RECURSIVE ScanShrinks(_, _, _)
ScanShrinks(S, txt, isversetext) ==
    \/ S.exc \/ txt = <<>>
    \/ HeadingStep(S, txt, isversetext).stop
    \/ /\ Len(HeadingStep(S, txt, isversetext).rest) < Len(txt)
       /\ ScanShrinks(HeadingStep(S, txt, isversetext).S,
                      HeadingStep(S, txt, isversetext).rest, isversetext)

\* addheading on a cell: the loop is entered with the stripped text
ScanCell(S, cell, isversetext) ==
    \/ S.exc \/ S.currnode = None \/ cell = <<>>
    \/ ScanShrinks(S, strip(IF cell[1] = "<br />" THEN Tail(cell) ELSE cell), isversetext)

\* the same for the loop of appendjunkytext
RECURSIVE JunkShrinks(_)
JunkShrinks(txt) ==
    \/ IndexFrom(txt, PTags, 1) = 0
    \/ Len(JunkRest(txt)) < Len(txt) /\ JunkShrinks(JunkRest(txt))

\* and for the loop over the verse numbers of a footnote bit
RECURSIVE FnvShrinks(_)
FnvShrinks(b) ==
    \/ FnvClose(b) = 0
    \/ Len(FnvRest(b)) < Len(b) /\ FnvShrinks(FnvRest(b))

\* regex.split(r"</?i>", txt)
BitsOf(txt) ==
    {SubSeq(txt, x[1], x[2]) : x \in
        {y \in (1..Len(txt) + 1) \X (0..Len(txt)) :
            /\ y[2] >= y[1] - 1
            /\ y[1] = 1 \/ txt[y[1] - 1] \in Italics
            /\ y[2] = Len(txt) \/ txt[y[2] + 1] \in Italics
            /\ \A k \in y[1]..y[2] : txt[k] \notin Italics}}

LoopsShrink(S0, r) ==
    /\ ScanCell(S0, r.Hdg, FALSE)
    /\ ScanCell(CellsUpTo(S0, r, 1), r.Crossref, FALSE)
    /\ ScanCell(CellsUpTo(S0, r, 2), r.Par, TRUE)
    /\ JunkShrinks(debracket(r.body))
    /\ \A b \in BitsOf(r.footnotes) : FnvShrinks(b)

Final == {"done", "aborted"}

\* C39: every pass of the scanner loop, of the loop of appendjunkytext and of the
\* loop over the verse numbers of a footnote takes at least one token of the text
\* that is left or leaves the loop, and the run reaches the last writedoc or is
\* aborted.
C39_Terminates ==
    /\ [][RowStep => LoopsShrink(RowRef(State, row'), row')]_vars
    /\ <>(pc \in Final)

\* C39 witness: the run is over after rows that went through the loops: the tree
\* holds a section heading and a verse number of a footnote.
C39_Witness ==
    /\ pc = "done"
    /\ \E n \in 1..Len(nodes) : nodes[n].style = "fv"
    /\ \E n \in 1..Len(nodes) : nodes[n].style = "s1"

------------------------------------------------------------------------------
(* Claims on the Reference Model (specification SpecRef) *)

\* the reference (code of the name, c, v) the text of refin starts with
RefOf(x, c, v) == [book |-> bookmap(x.name), chapter |-> c, verse |-> v]

\* C16: for every name N of the canonical list, numbered and multi-word names
\* included, parsing "N c:v" yields the Reference (code of N, c, v) with offsets that
\* span the whole reference text.
C16_ListedNameParses ==
    (pc = "parsed" /\ refin.name \in ListedNames /\ refin.form = "plain") =>
        /\ refres.ok
        /\ refres.first = RefOf(refin, refin.c, refin.v)
        /\ refres.last = refres.first
        /\ refres.start = Len(refin.pre) + 1
        /\ refres.end = Len(RefText(refin))

\* C17: "Book c:v<dash>w" yields the range (Book, c, v) to (Book, c, w) and
\* "Book c:v<dash>c2:w" the range (Book, c, v) to (Book, c2, w), the same for the
\* hyphen and the en-dash.
C17_DashRanges ==
    (pc = "parsed" /\ refin.name \in ListedNames /\ refin.form \in {"verse", "chapter"}) =>
        /\ refres.ok
        /\ refres.first = RefOf(refin, refin.c, refin.v)
        /\ refres.last = IF refin.form = "verse" THEN RefOf(refin, refin.c, refin.w)
                         ELSE RefOf(refin, refin.c2, refin.w)

\* C18: the colon-joined form "Book c1:v1:c2:v2" yields a range whose end is in
\* chapter c2.
C18_ColonRange ==
    (pc = "parsed" /\ refin.name \in {"Genesis", "John", "1 Samuel"} /\ refin.form = "colon") =>
        /\ refres.ok
        /\ refres.first = RefOf(refin, refin.c, refin.v)
        /\ refres.last = RefOf(refin, refin.c2, refin.w)

\* the 3-letter codes of the canonical list
Codes == {bookmap(n) : n \in ListedNames}

\* C19: a text with no chapter:verse pattern, or whose book name is not in the list
\* or differs from it in letter case, yields "no match", and every result that is a
\* match carries a code of the canonical list.
C19_NoMatchOrListed ==
    pc = "parsed" =>
        /\ (refin.form = "none" \/ refin.name \in UnlistedNames) => ~refres.ok
        /\ refres.ok => refres.book \in Codes

------------------------------------------------------------------------------
(* Claims on the footnote table loader (specification SpecFn) *)

\* the number of rows before row i of the table with the same column 0
Repeats(i) == Cardinality({j \in 1..(i - 1) : fntab[j].key = fntab[i].key})

\* C21: when the table holds several rows with the same reference, the first is
\* stored under the bare key and the n-th repetition under "<ref>[n]": once the
\* table is loaded every row's style list is in the dict under its own key.
C21_RepeatsKeptApart ==
    pc = "loaded" =>
        \A i \in 1..Len(fntab) :
            /\ FnKeyOf(fntab[i].key, Repeats(i)) \in DOMAIN fnqs
            /\ fnqs[FnKeyOf(fntab[i].key, Repeats(i))] = fntab[i].styles

------------------------------------------------------------------------------
(* Claims on two runs over the same table (specification SpecTwo) *)

\* the Processor as the variables hold it
Seen == [State EXCEPT !.exc = (pc = "aborted")]

------------------------------------------------------------------------------
(* Claims on the web service (specification SpecWeb) *)

\* C33: any two conversion requests, those of the same second included, have
\* different job identifiers and so different upload and output directories: no
\* request puts in its archive a file another request wrote.
C33_DistinctJobs ==
    \A i, j \in 1..Len(web.reqs) :
        i # j => /\ web.reqs[i].id # web.reqs[j].id
                 /\ web.reqs[i].members \cap web.reqs[j].paths = {}

\* C34: a download request that found its file sends it: the job directories are
\* removed after the response was made, on the free tier as on the paid tier.
C34_SentBeforeCleanup ==
    \A k \in 1..Len(web.downloads) : web.downloads[k].found => web.downloads[k].sent

\* cleanup_old_files has just returned without a removal error
Cleaned == web.last.op = "cleanup_old_files" /\ ~web.last.failed

\* C35: when cleanup_old_files returns without a removal error, no scanned file older
\* than MAX_FILE_AGE is left, the scanned files left have a total size of at most
\* MAX_TOTAL_SIZE, and every file removed for the size limit is no newer than every
\* scanned file left; '.gitkeep' is left alone.
C35_CleanupPost ==
    Cleaned =>
        /\ \A f \in Scanned(web.disk) : web.clock - f.mtime <= MAX_FILE_AGE
        /\ Size(Scanned(web.disk)) <= MAX_TOTAL_SIZE
        /\ \A r \in web.last.sized : \A k \in Scanned(web.disk) : r.mtime <= k.mtime
        /\ \A r \in web.last.aged \cup web.last.sized : r.name # ".gitkeep"
        /\ GitKeep \in web.disk

\* C35 witness: one call removed a file for its age and a file for the size limit and
\* left a scanned file.
C35_Witness ==
    /\ Cleaned /\ web.last.aged # {} /\ web.last.sized # {}
    /\ Scanned(web.disk) # {}

\* C38: cleanup_old_files removes no file of a conversion job between the start of
\* the job's conversion and the creation of its archive.
C38_JobFilesKept ==
    web.last.op = "cleanup_old_files" =>
        \A i \in 1..Len(web.reqs) :
            web.reqs[i].pc \in InFlight =>
                web.reqs[i].paths \cap Paths(web.last.aged \cup web.last.sized) = {}

------------------------------------------------------------------------------
(* Claims on ensurespace (specification SpecSpace) *)

IsTok(x) == x.id = 0

\* the texts under node n of the tree ns, in document order, end in white space
EndsInSpace(ns, n) ==
    LET toks == SelectSeq(ItemsOf(ns, n), IsTok)
    IN toks # <<>> /\ toks[Len(toks)].tok \in White

\* C37: ensurespace changes nothing when the last text under the node ends in a space
\* or a newline, so that a second call leaves the tree of the first call as it is,
\* and it adds no space inside a child whose tail ends in white space.
C37_SpaceOnce ==
    /\ (replay.step >= 1 /\ EndsInSpace(replay.log[1], currnode)) => nodes = replay.log[1]
    /\ replay.step = 2 => nodes = replay.log[2]

====
